---------------------------- MODULE Spec2Model ----------------------------
(***************************************************************************)
(* Steel cost-carbon explorer: synthetic data generator, scenario          *)
(* transformer, animation-frame assembly and the slider / preset / click   *)
(* handlers, for the four prototype variants of the repository:            *)
(*                                                                         *)
(*   "script"   src/script.js                                              *)
(*   "part000"  src/unnamed/part_000                                       *)
(*   "readmeA"  src/README.md lines 13-380  (Gapminder version)            *)
(*   "readmeB"  src/README.md lines 382-790 (single-year version)          *)
(*                                                                         *)
(* Units.  The value of a JavaScript number is modelled in fixed point,     *)
(* chosen so that the decimal value of every quantity the code computes    *)
(* from the modelled inputs is exact:                                      *)
(*   money      1 unit = 0.0001 USD   (950 USD/ton  = 9500000)             *)
(*   co2        1 unit = 0.1 kg       (380 kg/ton   = 3800)                *)
(*   volume     1 unit = 1 ton                                             *)
(*   bubbleSize 1 unit = 0.01 px      (floor of the exact value)           *)
(*   Math.random() = U/100 with U an even integer in 0..98                 *)
(* Slider values are whole numbers (percent, USD/ton, USD/t CO2).          *)
(*                                                                         *)
(* Doubles.  Where a printed digit or a sign test depends on the binary    *)
(* value the code holds rather than on the decimal (a value that is 0 or   *)
(* lies half way between two whole numbers), the expression is evaluated   *)
(* again in IEEE-754 double arithmetic, operation by operation, and the    *)
(* double decides: 685 * (1 + 10 / 100) + 60 is 813.5000000000001.         *)
(***************************************************************************)
EXTENDS Integers, Sequences, FiniteSets, TLC

VARIABLES
    variant,      \* which prototype is loaded (fixed after Init)
    baseData,     \* the Observation table (const baseData)
    state,        \* the global ScenarioState record
    phase,        \* "loading" before DOMContentLoaded has run, then "ready"
    scenario,     \* derived table returned by the latest computeScenario call
    chartData,    \* traces handed to Plotly.newPlot / react / update
    chartFrames,  \* frames registered with the chart (Plotly.addFrames)
    pending,      \* deferred callbacks of Plotly.newPlot(...).then(...)
    clickBound,   \* readmeA: the plotly_click handler is attached
    ui,           \* slider elements' values and the value labels' text
    summary,      \* the summary table cells
    threw,        \* the latest handler ended with an uncaught TypeError
    lastEvent,    \* the latest event handled
    redraws       \* updateChart() / onStateChange() calls of the latest handler

vars == << variant, baseData, state, phase, scenario, chartData, chartFrames,
           pending, clickBound, ui, summary, threw, lastEvent, redraws >>

-----------------------------------------------------------------------------
(* Bounds of the model *)

\* number of years of each timeline that are modelled (script.js and part_000:
\* 2025.., README Gapminder version: 2024..)
NumYears == 2
\* number of Math.random() sequences the generator is run with
NumSeeds == 2

-----------------------------------------------------------------------------
(* Units and arithmetic helpers *)

Dollars(n) == n * 10000
Kg(n) == n * 10

Max(a, b) == IF a >= b THEN a ELSE b
Abs(a) == IF a < 0 THEN -a ELSE a

\* floor of the square root of n (n >= 1) by Newton's iteration from a
\* start x >= sqrt(n): the iterates decrease until they reach the floor
RECURSIVE isqrtFrom(_, _)
isqrtFrom(n, x) ==
    IF (x + n \div x) \div 2 >= x THEN x ELSE isqrtFrom(n, (x + n \div x) \div 2)

\* Math.sqrt(volume) in hundredths: floor(100 * sqrt(volume)), 0 <= volume < 214748
sqrt100(volume) == IF volume = 0 THEN 0 ELSE isqrtFrom(volume * 10000, 46340)

\* Math.random(): the j-th draw made for row k under random sequence `seed`,
\* in hundredths.  Seed 1 is the sequence 0.5, 0.5, ... (zero noise).
random100(seed, k, j) ==
    IF seed = 1 THEN 50
    ELSE 2 * ((seed * 17 + k * 7 + j * 13 + k * j * 3) % 50)

-----------------------------------------------------------------------------
(* JavaScript numbers as IEEE-754 doubles                                  *)
(*                                                                         *)
(* The fixed-point value of a quantity is the double the code holds,       *)
(* rounded to the unit.  Where a result of the code depends on the double  *)
(* itself (x.toFixed(0) of a value whose decimal lies on a half, the sign  *)
(* of a difference whose decimal is 0) the double is computed by the       *)
(* operators below: exact integer arithmetic on the significand, rounded   *)
(* to 53 bits, ties to even.  Magnitudes stay far from the subnormal and   *)
(* overflow ranges, which are not modelled; -0 is not distinguished from   *)
(* 0 (no result of the code depends on the sign of a zero).                *)

\* the value of e, computed once: Only({ e })
Only(S) == CHOOSE r \in S : TRUE

\* natural numbers of any size: limbs in base 2^14, least significant
\* first, no leading zero limb; << >> is 0
Limb == 16384

Pow2(k) == << 1, 2, 4, 8, 16, 32, 64, 128, 256, 512, 1024, 2048, 4096, 8192, 16384 >>[k + 1]

\* number of bits of n, 0 <= n < Limb
BitLen(n) ==
    IF n >= 128
    THEN IF n >= 2048 THEN (IF n >= 8192 THEN 14 ELSE IF n >= 4096 THEN 13 ELSE 12)
         ELSE IF n >= 512 THEN (IF n >= 1024 THEN 11 ELSE 10)
         ELSE IF n >= 256 THEN 9 ELSE 8
    ELSE IF n >= 8 THEN (IF n >= 64 THEN 7 ELSE IF n >= 32 THEN 6
                         ELSE IF n >= 16 THEN 5 ELSE 4)
         ELSE IF n >= 4 THEN 3 ELSE IF n >= 2 THEN 2 ELSE n

RECURSIVE BigTrim(_)
BigTrim(a) ==
    IF a # << >> /\ a[Len(a)] = 0 THEN BigTrim(SubSeq(a, 1, Len(a) - 1)) ELSE a

RECURSIVE BigFromInt(_)
BigFromInt(n) == IF n = 0 THEN << >> ELSE << n % Limb >> \o BigFromInt(n \div Limb)

RECURSIVE BigToInt(_)
BigToInt(a) == IF a = << >> THEN 0 ELSE a[1] + Limb * BigToInt(Tail(a))

RECURSIVE BigAddC(_, _, _)
BigAddC(a, b, c) ==
    IF b = << >> /\ c = 0 THEN a
    ELSE IF a = << >> /\ c = 0 THEN b
    ELSE LET x == (IF a = << >> THEN 0 ELSE a[1]) + (IF b = << >> THEN 0 ELSE b[1]) + c
         IN  << x % Limb >> \o BigAddC(IF a = << >> THEN << >> ELSE Tail(a),
                                       IF b = << >> THEN << >> ELSE Tail(b),
                                       x \div Limb)
BigAdd(a, b) == BigAddC(a, b, 0)

\* a - b for a >= b
RECURSIVE BigSubB(_, _, _)
BigSubB(a, b, borrow) ==
    IF b = << >> /\ borrow = 0 THEN a
    ELSE LET x == a[1] - (IF b = << >> THEN 0 ELSE b[1]) - borrow
         IN  << IF x < 0 THEN x + Limb ELSE x >>
               \o BigSubB(Tail(a), IF b = << >> THEN << >> ELSE Tail(b),
                          IF x < 0 THEN 1 ELSE 0)
BigSub(a, b) == BigTrim(BigSubB(a, b, 0))

\* -1, 0 or 1 as a < b, a = b or a > b
RECURSIVE BigCmpFrom(_, _, _)
BigCmpFrom(a, b, i) ==
    IF i = 0 THEN 0
    ELSE IF a[i] > b[i] THEN 1
    ELSE IF a[i] < b[i] THEN -1
    ELSE BigCmpFrom(a, b, i - 1)
BigCmp(a, b) ==
    IF Len(a) > Len(b) THEN 1
    ELSE IF Len(a) < Len(b) THEN -1
    ELSE BigCmpFrom(a, b, Len(a))

\* a * b for a and b of at most four limbs: the column sums
\* a[i]b[k + 1 - i] + a[i + 1]b[k - i] + ... stay below 2^31, then the
\* carries are passed up
RECURSIVE BigColumn(_, _, _, _)
BigColumn(a, b, k, i) ==
    IF i > Len(a) \/ i > k THEN 0
    ELSE (IF k + 1 - i <= Len(b) THEN a[i] * b[k + 1 - i] ELSE 0)
           + BigColumn(a, b, k, i + 1)
RECURSIVE BigCarry(_, _, _)
BigCarry(cols, i, c) ==
    IF i > Len(cols) THEN BigFromInt(c)
    ELSE << (cols[i] + c) % Limb >> \o BigCarry(cols, i + 1, (cols[i] + c) \div Limb)
BigMul(a, b) ==
    IF a = << >> \/ b = << >> THEN << >>
    ELSE BigTrim(BigCarry([ k \in 1..(Len(a) + Len(b) - 1) |->
                              BigColumn(a, b, k, IF k > Len(b) THEN k + 1 - Len(b) ELSE 1) ]
                            \o << >>,
                          1, 0))

\* a * 2^k
BigShl(a, k) ==
    IF a = << >> \/ k = 0 THEN a
    ELSE LET w == k \div 14
             p == Pow2(k % 14)
             h == Limb \div p
             n == Len(a)
         IN  [ j \in 1..(n + w + (IF a[n] \div h > 0 THEN 1 ELSE 0)) |->
                 IF j <= w THEN 0
                 ELSE (IF j - w <= n THEN (a[j - w] % h) * p ELSE 0)
                        + (IF j - w > 1 THEN a[j - w - 1] \div h ELSE 0) ] \o << >>

\* floor(a / 2^k)
BigShr(a, k) ==
    LET w == k \div 14
        p == Pow2(k % 14)
        h == Limb \div p
        n == Len(a)
    IN  IF w >= n THEN << >>
        ELSE [ j \in 1..(n - w - (IF a[n] \div p = 0 THEN 1 ELSE 0)) |->
                 a[j + w] \div p + (IF j + w < n THEN (a[j + w + 1] % p) * h ELSE 0) ]
               \o << >>

\* bit k of a (bit 0 is the lowest), and: all bits of a below bit k are 0
BigBit(a, k) ==
    IF k \div 14 >= Len(a) THEN 0 ELSE (a[k \div 14 + 1] \div Pow2(k % 14)) % 2
BigLowZero(a, k) ==
    /\ \A i \in 1..(k \div 14) : i > Len(a) \/ a[i] = 0
    /\ k \div 14 >= Len(a) \/ a[k \div 14 + 1] % Pow2(k % 14) = 0

\* quotient and remainder of a by n, 0 < n <= Limb
RECURSIVE BigDivSmallFrom(_, _, _, _)
BigDivSmallFrom(a, n, i, r) ==
    IF i = 0 THEN [ q |-> << >>, r |-> r ]
    ELSE Only({ Only({ [ q |-> Append(low.q, x \div n), r |-> low.r ] :
                         low \in { BigDivSmallFrom(a, n, i - 1, x % n) } }) :
                x \in { r * Limb + a[i] } })
BigDivSmall(a, n) ==
    Only({ [ q |-> BigTrim(d.q), r |-> d.r ] : d \in { BigDivSmallFrom(a, n, Len(a), 0) } })

BigBitLen(a) == IF a = << >> THEN 0 ELSE 14 * (Len(a) - 1) + BitLen(a[Len(a)])

\* a double is [neg, m, e], standing for (-1)^neg * m * 2^e with m < 2^53
Doubles == [ neg : BOOLEAN, m : Seq(Nat), e : Int ]

\* roundDouble: the double nearest, ties to even, to a number whose
\* magnitude is n * 2^e, or, when `more` holds, lies strictly between
\* n * 2^e and (n + 1) * 2^e (n then has more than 53 bits)
roundDouble(neg, n, e, more) ==
    LET len == BigBitLen(n)
        r == len - 53
    IN  IF len <= 53 THEN [ neg |-> neg, m |-> n, e |-> e ]
        ELSE Only({ [ neg |-> neg, e |-> e + r,
                      m |-> IF /\ BigBit(n, r - 1) = 1
                               /\ more \/ ~BigLowZero(n, r - 1) \/ q[1] % 2 = 1
                            THEN BigAdd(q, << 1 >>) ELSE q ] :
                    q \in { BigShr(n, r) } })

\* An expression over JavaScript numbers is kept as the code writes it, as
\* a program in postfix order:
\*   Num(n, q)   the numeric value n / q (a table value, a literal), n whole
\*               and q a power of ten: the double nearest to n / q
\*   Whole(n)    the whole number n (a slider value, a literal)
\*   Neg(a)  Plus(a, b)  Minus(a, b)  Times(a, b)    -a  a + b  a - b  a * b
\*   Over(a, n)  a / n for a whole-number literal 0 < n < Limb
\* Ins(op, n, q) is the single instruction op.
Instructions == [ op : STRING, n : Int, q : Int ]
Ins(op, n, q) == << [ op |-> op, n |-> n, q |-> q ] >>
Num(n, q) == Ins("num", n, q)
Whole(n) == Ins("num", n, 1)
Neg(a) == a \o Ins("neg", 0, 1)
Plus(a, b) == a \o b \o Ins("+", 0, 1)
Minus(a, b) == a \o b \o Ins("-", 0, 1)
Times(a, b) == a \o b \o Ins("*", 0, 1)
Over(a, n) == a \o Ins("/", n, 1)

\* The exact result of an arithmetic instruction is [neg, n, e, more]: its
\* magnitude is n * 2^e or, when `more` holds, lies strictly between n * 2^e
\* and (n + 1) * 2^e.

\* x + y, where y has the sign yneg (0 + 0 is -0 only for -0 + -0, and
\* x + -x is +0)
jsSum(x, y, yneg, e) ==
    IF x.m = << >> /\ y.m = << >>
    THEN [ neg |-> x.neg /\ yneg, n |-> << >>, e |-> 0, more |-> FALSE ]
    ELSE Only({ IF x.neg = yneg
                THEN [ neg |-> yneg, n |-> BigAdd(a, b), e |-> e, more |-> FALSE ]
                ELSE Only({ [ neg |-> IF c = 0 THEN FALSE
                                      ELSE IF c > 0 THEN x.neg ELSE yneg,
                              n |-> IF c = 0 THEN << >>
                                    ELSE BigSub(IF c > 0 THEN a ELSE b,
                                                IF c > 0 THEN b ELSE a),
                              e |-> e, more |-> FALSE ] :
                            c \in { BigCmp(a, b) } }) :
                a \in { BigShl(x.m, x.e - e) }, b \in { BigShl(y.m, y.e - e) } })

\* x * y
jsProduct(x, y) ==
    [ neg |-> x.neg # y.neg, n |-> BigMul(x.m, y.m), e |-> x.e + y.e, more |-> FALSE ]

\* y / d for a whole number 0 < d < Limb: the dividend is scaled so that
\* the quotient has at least 55 bits
jsQuotient(y, d, scale) ==
    IF y.m = << >> \/ d = 1
    THEN [ neg |-> y.neg, n |-> y.m, e |-> y.e, more |-> FALSE ]
    ELSE Only({ [ neg |-> y.neg, n |-> dv.q, e |-> y.e - scale, more |-> dv.r # 0 ] :
                dv \in { BigDivSmall(BigShl(y.m, scale), d) } })

\* y.toFixed(0): "-" if y < 0, then the whole number nearest to |y|, the
\* larger one when |y| lies half way between two
jsToFixed0(y) ==
    (IF y.neg /\ y.m # << >> THEN "-" ELSE "")
      \o ToString(IF y.e >= 0 THEN BigToInt(y.m) * Pow2(y.e)
                  ELSE (BigToInt(BigShr(y.m, -y.e - 1)) + 1) \div 2)

\* the result of the instruction ins on the operands x and y
jsResult(ins, x, y) ==
    CASE ins.op = "toFixed0" -> jsToFixed0(y)
      [] ins.op = ">=0" -> ~(y.neg /\ y.m # << >>)
      [] ins.op = ">0" -> ~y.neg /\ y.m # << >>
      [] OTHER ->
           Only({ IF ins.op = "=" THEN ex.n = << >>
                  ELSE roundDouble(ex.neg, ex.n, ex.e, ex.more) :
                  ex \in { CASE ins.op \in { "+", "-", "=" } ->
                                  jsSum(x, y, IF ins.op = "+" THEN y.neg ELSE ~y.neg,
                                        IF x.e < y.e THEN x.e ELSE y.e)
                             [] ins.op = "*" -> jsProduct(x, y)
                             [] ins.op \in { "/", "num" } ->
                                  jsQuotient(y,
                                             IF ins.op = "/" THEN ins.n
                                             ELSE IF ins.n % ins.q = 0 THEN 1 ELSE ins.q,
                                             69 - BigBitLen(y.m))
                             [] ins.op = "neg" ->
                                  [ neg |-> ~y.neg, n |-> y.m, e |-> y.e, more |-> FALSE ] } })

\* the whole number n as a double
jsWhole(n) == [ neg |-> n < 0, m |-> BigFromInt(IF n < 0 THEN -n ELSE n), e |-> 0 ]

\* jsStep: one instruction on the stack st of doubles (the top is last).
\* An arithmetic instruction takes its operands x and y (y on top) off the
\* stack, forms the exact result and rounds it to a double; "num" has the
\* whole number n (n / q when that is whole) as its operand.  The other
\* instructions take doubles and give a string or a truth value: "toFixed0",
\* ">=0", ">0" and "=" for y.toFixed(0), y >= 0, y > 0 and x === y.
jsStep[ins \in Instructions, st \in Seq(Doubles)] ==
    Append(SubSeq(st, 1, Len(st) - (IF ins.op = "num" THEN 0
                                    ELSE IF ins.op \in { "+", "-", "*", "=" } THEN 2
                                    ELSE 1)),
           jsResult(ins,
                    IF ins.op \in { "+", "-", "*", "=" } THEN st[Len(st) - 1] ELSE << >>,
                    IF ins.op = "num"
                    THEN jsWhole(IF ins.n % ins.q = 0 THEN ins.n \div ins.q ELSE ins.n)
                    ELSE st[Len(st)]))

\* the program run from instruction i on
RECURSIVE jsRun(_, _, _)
jsRun(prog, i, st) ==
    IF i > Len(prog) THEN st
    ELSE Only({ jsRun(prog, i + 1, next) : next \in { jsStep[prog[i], st] } })

\* what the expression evaluates to
jsValue[expr \in Seq(Instructions)] == jsRun(expr, 1, << >>)[1]

-----------------------------------------------------------------------------
(* Regions and base tables *)

Variants == {"script", "part000", "readmeA", "readmeB"}

regions == << "US", "EU", "Australia", "Brazil", "China", "South Africa" >>

Range(s) == { s[i] : i \in DOMAIN s }

baseCost_script ==
    [ r \in Range(regions) |->
        CASE r = "US" -> 950 [] r = "EU" -> 1000 [] r = "Australia" -> 880
          [] r = "Brazil" -> 760 [] r = "China" -> 650 [] r = "South Africa" -> 820 ]

baseCo2_script ==
    [ r \in Range(regions) |->
        CASE r = "US" -> 380 [] r = "EU" -> 1850 [] r = "Australia" -> 420
          [] r = "Brazil" -> 440 [] r = "China" -> 2100 [] r = "South Africa" -> 1750 ]

\* const years = []; for (let y = 2025; y <= 2050; y++) years.push(y);
\* truncated to the first NumYears years
years_script == [ i \in 1..NumYears |-> 2025 + i - 1 ]

\* script.js genData: years outer loop, regions inner loop
genData_script(seed) ==
    [ k \in 1..(Len(years_script) * Len(regions)) |->
        LET t == (k - 1) \div Len(regions)
            region == regions[((k - 1) % Len(regions)) + 1]
            isUS == region = "US"
        IN  [ region |-> region,
              year |-> years_script[t + 1],
              cost |-> Dollars(baseCost_script[region])
                        + Dollars(IF isUS THEN -12 * t ELSE 9 * t)
                        + (random100(seed, k, 1) - 50) * 3500,
              co2 |-> Kg(baseCo2_script[region])
                        - Kg(IF isUS THEN 14 * t ELSE 4 * t)
                        + ((random100(seed, k, 2) - 50) * 55) \div 10,
              volume |-> 15000 + t * 3500 + random100(seed, k, 3) * 120 ] ]

\* mutant: the year loop stops one year early and repeats the first year
genData_part000_shortLoop(seed) ==
    [ k \in 1..(Len(years_script) * Len(regions)) |->
        LET t == ((k - 1) \div Len(regions)) % (Len(years_script) - 1)
            region == regions[((k - 1) % Len(regions)) + 1]
            isUS == region = "US"
        IN  [ region |-> region,
              year |-> years_script[t + 1],
              cost |-> Dollars(baseCost_script[region])
                        + Dollars(IF isUS THEN -12 * t ELSE 8 * t)
                        + (random100(seed, k, 1) - 50) * 4000,
              co2 |-> Kg(baseCo2_script[region])
                        - Kg(IF isUS THEN 12 * t ELSE 4 * t)
                        + (random100(seed, k, 2) - 50) * 8,
              volume |-> 30000 + t * 1000 + random100(seed, k, 3) * 200 ] ]

\* part_000 genData
genData_part000(seed) ==
    [ k \in 1..(Len(years_script) * Len(regions)) |->
        LET t == (k - 1) \div Len(regions)
            region == regions[((k - 1) % Len(regions)) + 1]
            isUS == region = "US"
        IN  [ region |-> region,
              year |-> years_script[t + 1],
              cost |-> Dollars(baseCost_script[region])
                        + Dollars(IF isUS THEN -12 * t ELSE 8 * t)
                        + (random100(seed, k, 1) - 50) * 4000,
              co2 |-> Kg(baseCo2_script[region])
                        - Kg(IF isUS THEN 12 * t ELSE 4 * t)
                        + (random100(seed, k, 2) - 50) * 8,
              volume |-> 30000 + t * 1000 + random100(seed, k, 3) * 200 ] ]


\* README generators: const years = [2024, 2025, 2026, 2027, 2028, 2029, 2030]
years_readme == [ i \in 1..7 |-> 2024 + i - 1 ]
\* the Gapminder version is modelled with the first NumYears of them
years_readmeA == [ i \in 1..NumYears |-> years_readme[i] ]

methods ==
    [ r \in Range(regions) |->
        IF r \in {"US", "Australia", "Brazil"} THEN "EAF" ELSE "BF-BOF" ]

baseCost_readme ==
    [ r \in Range(regions) |->
        CASE r = "US" -> 950 [] r = "EU" -> 1000 [] r = "Australia" -> 900
          [] r = "Brazil" -> 760 [] r = "China" -> 680 [] r = "South Africa" -> 830 ]

\* x is an odd multiple of half the unit q: the decimal lies half way
\* between two multiples of q
onHalf(x, q) == (2 * x) % q = 0 /\ ((2 * x) \div q) % 2 = 1

\* the double y >= 0 is less than the decimal n / q (n >= 0, 0 < q)
lessThanDecimal(y, n, q) ==
    BigCmp(BigShl(BigMul(y.m, BigFromInt(q)), IF y.e > 0 THEN y.e ELSE 0),
           BigShl(BigFromInt(n), IF y.e < 0 THEN -y.e ELSE 0)) < 0

\* Number(x.toFixed(1)) for the number x whose decimal is x / (10 * q), q
\* being 0.1 in units: the multiple of q nearest to the double that x is,
\* the one further from zero when the double lies half way between two.
\* The decimal decides unless it lies on a half, where the double does:
\* 965.05 is the double 965.04999999999995... and gives 965, 0.25 gives 0.3.
toFixed(x, q) ==
    IF onHalf(x, q)
    THEN (IF x < 0 THEN -1 ELSE 1) * q
           * (Abs(x) \div q
                + (IF lessThanDecimal(jsValue[Num(Abs(x), 10 * q)], Abs(x), 10 * q)
                   THEN 0 ELSE 1))
    ELSE IF x >= 0 THEN ((2 * x + q) \div (2 * q)) * q
    ELSE -(((2 * (-x) + q) \div (2 * q)) * q)

\* README generateBaseData: regions outer loop, years inner loop
generateBaseData(seed) ==
    [ k \in 1..(Len(regions) * Len(years_readmeA)) |->
        LET region == regions[((k - 1) \div Len(years_readmeA)) + 1]
            i == (k - 1) % Len(years_readmeA)
            method == methods[region]
            isEAF == method = "EAF"
            costTrend == Dollars(IF isEAF THEN -10 * i ELSE 5 * i)
            costNoise == (random100(seed, k, 1) - 50) * 4000
            co2Trend == Kg(IF isEAF THEN -15 * i ELSE -5 * i)
            co2Noise == (random100(seed, k, 2) - 50) * 8
        IN  [ region |-> region,
              method |-> method,
              year |-> years_readmeA[i + 1],
              baseCost |-> Dollars(baseCost_readme[region]) + costTrend + costNoise,
              baseCo2 |-> Kg(baseCo2_script[region]) + co2Trend + co2Noise,
              volume |-> 50000 + random100(seed, k, 3) * 400 ] ]

\* README buildBaseData: one volume draw per region (draw 0 of the region's
\* first row), then three draws per year
buildBaseData(seed) ==
    [ k \in 1..(Len(regions) * Len(years_readme)) |->
        LET rIdx == ((k - 1) \div Len(years_readme)) + 1
            region == regions[rIdx]
            idx == (k - 1) % Len(years_readme)
            method == methods[region]
            isEAF == method = "EAF"
            cost == Dollars(baseCost_readme[region])
            co2 == Kg(baseCo2_script[region])
            \* 50000 + Math.floor(Math.random() * 30000)
            volume == 50000 + random100(seed, (rIdx - 1) * Len(years_readme) + 1, 0) * 300
            costNoise == (random100(seed, k, 1) - 50) * 5000
            trendCost == Dollars(IF isEAF THEN -10 * idx ELSE 5 * idx)
            thisYearCost == cost + costNoise + trendCost
            improvement == IF isEAF THEN 12 ELSE 20
            thisYearCo2 == co2 - Kg(improvement * idx) + (random100(seed, k, 2) - 50) * 4
        IN  [ region |-> region,
              method |-> method,
              year |-> years_readme[idx + 1],
              baseCost |-> toFixed(thisYearCost, 1000),
              baseCo2 |-> toFixed(thisYearCo2, 1),
              volume |-> volume + (random100(seed, k, 3) - 50) * 80 ] ]

\* const baseData = genData();  (evaluated once when the script is loaded)
genData(v, seed) ==
    CASE v = "script" -> genData_script(seed)
      [] v = "part000" -> genData_part000(seed)
      [] v = "readmeA" -> generateBaseData(seed)
      [] v = "readmeB" -> buildBaseData(seed)

-----------------------------------------------------------------------------
(* Scenario transformer *)

domesticRegions == << "US" >>
\* mutant: Brazil is missing from the overseas list
overseasRegions_noBrazil == << "EU", "Australia", "China", "South Africa" >>
overseasRegions == << "EU", "Australia", "Brazil", "China", "South Africa" >>

\* Array.prototype.includes
includes(list, x) == \E i \in DOMAIN list : list[i] = x

\* mutant: the tariff and shipping branch is taken for every region
deriveRow_script_noDomestic(d, s) ==
    LET delivered == d.cost + (s.tariff * d.cost) \div 100 + Dollars(s.shipping)
    IN  [ region |-> d.region, year |-> d.year, cost |-> d.cost, co2 |-> d.co2,
          volume |-> d.volume,
          deliveredCost |-> delivered,
          bubbleSize |-> Max(1200, sqrt100(d.volume) \div 9),
          carbonAdj |-> delivered + d.co2 * s.carbon ]

\* script.js computeScenario, the body of the map callback
deriveRow_script(d, s) ==
    LET isDomestic == d.region = "US"
        delivered ==
            d.cost + (IF isDomestic THEN -Dollars(s.incentive)
                      ELSE (s.tariff * d.cost) \div 100 + Dollars(s.shipping))
    IN  \* { ...d, deliveredCost, bubbleSize, carbonAdj }
        [ region |-> d.region, year |-> d.year, cost |-> d.cost, co2 |-> d.co2,
          volume |-> d.volume,
          deliveredCost |-> delivered,
          bubbleSize |-> Max(1200, sqrt100(d.volume) \div 9),
          carbonAdj |-> delivered + d.co2 * s.carbon ]

\* mutant: the radius is taken from the co2 field instead of the volume
deriveRow_part000_sizeFromCo2(d, s) ==
    LET isDomestic == d.region = "US"
        delivered ==
            d.cost + (IF isDomestic THEN -Dollars(s.incentive)
                      ELSE (s.tariff * d.cost) \div 100 + Dollars(s.shipping))
    IN  [ region |-> d.region, year |-> d.year, cost |-> d.cost, co2 |-> d.co2,
          volume |-> d.volume,
          deliveredCost |-> delivered,
          bubbleSize |-> sqrt100(d.co2) \div 20,
          carbonAdj |-> delivered + d.co2 * s.carbon ]

\* mutant: the carbon penalty is added to the base cost, not the delivered cost
deriveRow_part000_carbonOnBase(d, s) ==
    LET isDomestic == d.region = "US"
        delivered ==
            d.cost + (IF isDomestic THEN -Dollars(s.incentive)
                      ELSE (s.tariff * d.cost) \div 100 + Dollars(s.shipping))
    IN  [ region |-> d.region, year |-> d.year, cost |-> d.cost, co2 |-> d.co2,
          volume |-> d.volume,
          deliveredCost |-> delivered,
          bubbleSize |-> sqrt100(d.volume) \div 20,
          carbonAdj |-> d.cost + d.co2 * s.carbon ]

\* part_000 computeScenario, the body of the map callback
deriveRow_part000(d, s) ==
    LET isDomestic == d.region = "US"
        delivered ==
            d.cost + (IF isDomestic THEN -Dollars(s.incentive)
                      ELSE (s.tariff * d.cost) \div 100 + Dollars(s.shipping))
    IN  \* { ...d, deliveredCost, bubbleSize, carbonAdj }
        [ region |-> d.region, year |-> d.year, cost |-> d.cost, co2 |-> d.co2,
          volume |-> d.volume,
          deliveredCost |-> delivered,
          bubbleSize |-> sqrt100(d.volume) \div 20,
          carbonAdj |-> delivered + d.co2 * s.carbon ]

\* mutant: the incentive is subtracted for every region
deriveRow_readmeA_incentiveAll(d, s) ==
    LET isDomestic == includes(domesticRegions, d.region)
        isOverseas == includes(overseasRegions, d.region)
        tariffAdj == IF isDomestic THEN 0 ELSE (s.tariff * d.baseCost) \div 100
        shippingAdj == IF isOverseas THEN Dollars(s.shipping) ELSE 0
        incentiveAdj == Dollars(s.incentive)
        deliveredCost == d.baseCost + tariffAdj + shippingAdj - incentiveAdj
        carbonAdjustedCost == deliveredCost + d.baseCo2 * s.carbonPrice
    IN  [ region |-> d.region, method |-> d.method, year |-> d.year,
          baseCost |-> d.baseCost, baseCo2 |-> d.baseCo2, volume |-> d.volume,
          deliveredCost |-> deliveredCost,
          carbonAdjustedCost |-> carbonAdjustedCost,
          bubbleSize |-> Max(1000, sqrt100(d.volume) \div 25) ]

\* mutant: Math.max is forgotten, the radius is not floored
deriveRow_readmeA_noFloor(d, s) ==
    LET isDomestic == includes(domesticRegions, d.region)
        isOverseas == includes(overseasRegions, d.region)
        tariffAdj == IF isDomestic THEN 0 ELSE (s.tariff * d.baseCost) \div 100
        shippingAdj == IF isOverseas THEN Dollars(s.shipping) ELSE 0
        incentiveAdj == IF isDomestic THEN Dollars(s.incentive) ELSE 0
        deliveredCost == d.baseCost + tariffAdj + shippingAdj - incentiveAdj
        carbonAdjustedCost == deliveredCost + d.baseCo2 * s.carbonPrice
    IN  [ region |-> d.region, method |-> d.method, year |-> d.year,
          baseCost |-> d.baseCost, baseCo2 |-> d.baseCo2, volume |-> d.volume,
          deliveredCost |-> deliveredCost,
          carbonAdjustedCost |-> carbonAdjustedCost,
          bubbleSize |-> sqrt100(d.volume) \div 25 ]

\* README computeScenario (Gapminder version), the body of the for loop
deriveRow_readmeA(d, s) ==
    LET isDomestic == includes(domesticRegions, d.region)
        isOverseas == includes(overseasRegions, d.region)
        tariffAdj == IF isDomestic THEN 0 ELSE (s.tariff * d.baseCost) \div 100
        shippingAdj == IF isOverseas THEN Dollars(s.shipping) ELSE 0
        incentiveAdj == IF isDomestic THEN Dollars(s.incentive) ELSE 0
        deliveredCost == d.baseCost + tariffAdj + shippingAdj - incentiveAdj
        carbonAdjustedCost == deliveredCost + d.baseCo2 * s.carbonPrice
    IN  \* { ...d, deliveredCost, carbonAdjustedCost, bubbleSize }
        [ region |-> d.region, method |-> d.method, year |-> d.year,
          baseCost |-> d.baseCost, baseCo2 |-> d.baseCo2, volume |-> d.volume,
          deliveredCost |-> deliveredCost,
          carbonAdjustedCost |-> carbonAdjustedCost,
          bubbleSize |-> Max(1000, sqrt100(d.volume) \div 25) ]

\* mutant: the tariff multiplier is applied to domestic steel as well
deriveRow_readmeB_tariffAll(d, s) ==
    LET isDomestic == includes(domesticRegions, d.region)
        isOverseas == includes(overseasRegions, d.region)
        shipping == IF isOverseas THEN Dollars(s.shippingCost) ELSE 0
        incentive == IF isDomestic THEN Dollars(s.iraIncentive) ELSE 0
        deliveredCost == (d.baseCost * (100 + s.tariffPercent)) \div 100 + shipping - incentive
        carbonAdjustedCost == deliveredCost + d.baseCo2 * s.carbonPrice
    IN  [ region |-> d.region, method |-> d.method, year |-> d.year,
          baseCost |-> d.baseCost, baseCo2 |-> d.baseCo2, volume |-> d.volume,
          deliveredCost |-> deliveredCost,
          carbonAdjustedCost |-> carbonAdjustedCost ]

\* README computeScenarioData (single-year version), the body of the map callback
deriveRow_readmeB(d, s) ==
    LET isDomestic == includes(domesticRegions, d.region)
        isOverseas == includes(overseasRegions, d.region)
        \* tariffMultiplier = isDomestic ? 0 : tariffPercent / 100, in percent
        tariffMultiplier == IF isDomestic THEN 0 ELSE s.tariffPercent
        shipping == IF isOverseas THEN Dollars(s.shippingCost) ELSE 0
        incentive == IF isDomestic THEN Dollars(s.iraIncentive) ELSE 0
        deliveredCost == (d.baseCost * (100 + tariffMultiplier)) \div 100 + shipping - incentive
        carbonCost == d.baseCo2 * s.carbonPrice
        carbonAdjustedCost == deliveredCost + carbonCost
    IN  \* { ...d, deliveredCost, carbonAdjustedCost }
        [ region |-> d.region, method |-> d.method, year |-> d.year,
          baseCost |-> d.baseCost, baseCo2 |-> d.baseCo2, volume |-> d.volume,
          deliveredCost |-> deliveredCost,
          carbonAdjustedCost |-> carbonAdjustedCost ]

\* computeScenario(): reads the globals baseData (table) and state (s)
deriveRow(v, d, s) ==
    CASE v = "script" -> deriveRow_script(d, s)
      [] v = "part000" -> deriveRow_part000(d, s)
      [] v = "readmeA" -> deriveRow_readmeA(d, s)
      [] v = "readmeB" -> deriveRow_readmeB(d, s)

\* The expression the transformer evaluates for field f of row d under
\* state s, operation by operation as the code writes it; a number read
\* from the table is the double nearest to its decimal.
\* script.js lines 76-89 and part_000 lines 60-72 (the same expressions)
doubles_script(d, s, f) ==
    LET cost == Num(d.cost, 10000)
        co2 == Num(d.co2, 10)
        isDomestic == d.region = "US"
        delivered ==
          Plus(cost,
               IF isDomestic THEN Neg(Whole(s.incentive))
               ELSE Plus(Times(Over(Whole(s.tariff), 100), cost), Whole(s.shipping)))
    IN  CASE f = "cost" -> cost
          [] f = "co2" -> co2
          [] f = "deliveredCost" -> delivered
          [] f = "carbonAdj" -> Plus(delivered, Times(Over(co2, 1000), Whole(s.carbon)))

\* README computeScenario (Gapminder version), lines 132-143
doubles_readmeA(d, s, f) ==
    LET isDomestic == includes(domesticRegions, d.region)
        isOverseas == includes(overseasRegions, d.region)
        baseCost == Num(d.baseCost, 10000)
        baseCo2 == Num(d.baseCo2, 10)
        tariffAdj == IF isDomestic THEN Whole(0)
                     ELSE Times(Over(Whole(s.tariff), 100), baseCost)
        shippingAdj == IF isOverseas THEN Whole(s.shipping) ELSE Whole(0)
        incentiveAdj == IF isDomestic THEN Whole(s.incentive) ELSE Whole(0)
        deliveredCost == Minus(Plus(Plus(baseCost, tariffAdj), shippingAdj), incentiveAdj)
    IN  CASE f = "baseCost" -> baseCost
          [] f = "baseCo2" -> baseCo2
          [] f = "deliveredCost" -> deliveredCost
          [] f = "carbonAdjustedCost" ->
               Plus(deliveredCost, Times(Over(baseCo2, 1000), Whole(s.carbonPrice)))

\* README computeScenarioData (single-year version), lines 497-515
doubles_readmeB(d, s, f) ==
    LET isDomestic == includes(domesticRegions, d.region)
        isOverseas == includes(overseasRegions, d.region)
        baseCost == Num(d.baseCost, 10000)
        baseCo2 == Num(d.baseCo2, 10)
        tariffMultiplier == IF isDomestic THEN Whole(0)
                            ELSE Over(Whole(s.tariffPercent), 100)
        shipping == IF isOverseas THEN Whole(s.shippingCost) ELSE Whole(0)
        incentive == IF isDomestic THEN Whole(s.iraIncentive) ELSE Whole(0)
        deliveredCost ==
          Minus(Plus(Times(baseCost, Plus(Whole(1), tariffMultiplier)), shipping),
                incentive)
        carbonCost == Times(Over(baseCo2, 1000), Whole(s.carbonPrice))
    IN  CASE f = "baseCost" -> baseCost
          [] f = "baseCo2" -> baseCo2
          [] f = "deliveredCost" -> deliveredCost
          [] f = "carbonAdjustedCost" -> Plus(deliveredCost, carbonCost)

\* (array.map builds a new array: "\o << >>" makes the mapped sequence a value)
\* mutant: the adjustments are applied on top of the previous derived table
computeScenario_script_inPlace(table, s) ==
    IF scenario = << >>
    THEN [ i \in DOMAIN table |-> deriveRow_script(table[i], s) ] \o << >>
    ELSE [ i \in DOMAIN table |->
             deriveRow_script([ table[i] EXCEPT !.cost = scenario[i].deliveredCost ], s) ]
         \o << >>

computeScenario_script(table, s) ==
    [ i \in DOMAIN table |-> deriveRow_script(table[i], s) ] \o << >>
computeScenario_part000(table, s) ==
    [ i \in DOMAIN table |-> deriveRow_part000(table[i], s) ] \o << >>
computeScenario_readmeA(table, s) ==
    [ i \in DOMAIN table |-> deriveRow_readmeA(table[i], s) ] \o << >>
computeScenarioData(table, s) ==
    LET yearData == SelectSeq(table, LAMBDA d : d.year = s.year)
    IN  [ i \in DOMAIN yearData |-> deriveRow_readmeB(yearData[i], s) ] \o << >>

computeScenario(v, table, s) ==
    CASE v = "script" -> computeScenario_script(table, s)
      [] v = "part000" -> computeScenario_part000(table, s)
      [] v = "readmeA" -> computeScenario_readmeA(table, s)
      [] v = "readmeB" -> computeScenarioData(table, s)

-----------------------------------------------------------------------------
(* Colors, frames and trails *)

\* What an object literal holds under a name that is none of its own
\* keys: the member it inherits from Object.prototype, or undefined.  A
\* value that is not a string is written as its typeof.
inherited(name) ==
    CASE name \in { "constructor", "toString", "toLocaleString", "valueOf",
                    "hasOwnProperty", "isPrototypeOf", "propertyIsEnumerable",
                    "__defineGetter__", "__defineSetter__",
                    "__lookupGetter__", "__lookupSetter__" } -> "function"
      [] name = "__proto__" -> "object"
      [] OTHER -> "undefined"

\* script.js and part_000 regionColor: a lookup in an object literal with no
\* default, so a region outside the six gives what the literal inherits
\* under that name, undefined for most names
regionColor_script(region) ==
    CASE region = "US" -> "#1f77b4" [] region = "EU" -> "#ff7f0e"
      [] region = "Australia" -> "#2ca02c" [] region = "Brazil" -> "#17becf"
      [] region = "China" -> "#d62728" [] region = "South Africa" -> "#9467bd"
      [] OTHER -> inherited(region)

\* README regionColor (both versions): map[region] || "#7f7f7f"; an
\* inherited member is truthy and is returned as it is
regionColor(region) ==
    CASE region = "US" -> "#1f77b4" [] region = "EU" -> "#ff7f0e"
      [] region = "Australia" -> "#2ca02c" [] region = "Brazil" -> "#17becf"
      [] region = "China" -> "#d62728" [] region = "South Africa" -> "#9467bd"
      [] inherited(region) # "undefined" -> inherited(region)
      [] OTHER -> "#7f7f7f"

\* README regionOpacity, in hundredths; s is the global state
regionOpacity(region, s) ==
    IF s.highlightedRegion = "null" THEN 100
    ELSE IF region = s.highlightedRegion THEN 100 ELSE 15

\* [...new Set(list)]: the distinct elements in order of first appearance
RECURSIVE uniqueFrom(_, _, _)
uniqueFrom(list, i, acc) ==
    IF i > Len(list) THEN acc
    ELSE uniqueFrom(list, i + 1,
                    IF includes(acc, list[i]) THEN acc ELSE Append(acc, list[i]))
unique(list) == uniqueFrom(list, 1, << >>)

\* the traces of one year in script.js (buildFrames, initChart, updateChart):
\* regions.map(region => { all.filter(region, year) ... })
tracesOfYear_script(all, yr) ==
    [ j \in DOMAIN regions |->
        LET region == regions[j]
            d == SelectSeq(all, LAMBDA x : x.region = region /\ x.year = yr)
        IN  [ name |-> region,
              x |-> [ i \in DOMAIN d |-> d[i].deliveredCost ],
              y |-> [ i \in DOMAIN d |-> d[i].co2 ],
              text |-> [ i \in DOMAIN d |-> << region, yr >> ],
              mode |-> "markers",
              marker |-> [ size |-> [ i \in DOMAIN d |-> d[i].bubbleSize ],
                           color |-> regionColor_script(region),
                           opacity |-> 85 ] ] ]

\* script.js buildFrames
buildFrames_script(all) ==
    [ k \in DOMAIN years_script |->
        [ name |-> ToString(years_script[k]),
          data |-> tracesOfYear_script(all, years_script[k]) ] ]

\* mutant: the year filter keeps the rows of the later years too
traceOfYear_part000_fromYear(all, yr) ==
    LET d == SelectSeq(all, LAMBDA i : i.year >= yr)
    IN  [ x |-> [ i \in DOMAIN d |-> d[i].deliveredCost ],
          y |-> [ i \in DOMAIN d |-> d[i].co2 ],
          text |-> [ i \in DOMAIN d |-> << d[i].region, yr >> ],
          marker |-> [ size |-> [ i \in DOMAIN d |-> d[i].bubbleSize ],
                       color |-> [ i \in DOMAIN d |-> regionColor_script(d[i].region) ] ] ]

\* the single trace of one year in part_000
traceOfYear_part000(all, yr) ==
    LET d == SelectSeq(all, LAMBDA i : i.year = yr)
    IN  [ x |-> [ i \in DOMAIN d |-> d[i].deliveredCost ],
          y |-> [ i \in DOMAIN d |-> d[i].co2 ],
          text |-> [ i \in DOMAIN d |-> << d[i].region, yr >> ],
          marker |-> [ size |-> [ i \in DOMAIN d |-> d[i].bubbleSize ],
                       color |-> [ i \in DOMAIN d |-> regionColor_script(d[i].region) ] ] ]

\* part_000 buildFrames
buildFrames_part000(all) ==
    [ k \in DOMAIN years_script |->
        [ name |-> ToString(years_script[k]),
          data |-> << traceOfYear_part000(all, years_script[k]) >> ] ]

\* f.toFixed(0) for the expression f whose value in units of 1/q is x.  The
\* double is within a few ulps of its decimal, so the decimal decides the
\* digits unless it is 0 or lies on a half; -0.3 gives "-0".
toFixed0(x, q, f) ==
    IF x = 0 \/ onHalf(x, q) THEN jsValue[f \o Ins("toFixed0", 0, 1)]
    ELSE (IF x < 0 THEN "-" ELSE "") \o ToString((2 * Abs(x) + q) \div (2 * q))

\* f >= 0 and f > 0 for the expression f whose value in units is x
geq0(x, f) == IF x = 0 THEN jsValue[f \o Ins(">=0", 0, 1)] ELSE x > 0
gt0(x, f) == IF x = 0 THEN jsValue[f \o Ins(">0", 0, 1)] ELSE x > 0

\* README buildFrames (reads state through regionOpacity)
buildFrames_readmeA(allData, s) ==
    LET years == unique([ i \in DOMAIN allData |-> allData[i].year ])
    IN  [ k \in DOMAIN years |->
            LET year == years[k]
                frameData == SelectSeq(allData, LAMBDA d : d.year = year)
            IN  [ name |-> ToString(year),
                  data |-> <<
                    [ x |-> [ i \in DOMAIN frameData |-> frameData[i].deliveredCost ],
                      y |-> [ i \in DOMAIN frameData |-> frameData[i].baseCo2 ],
                      text |-> [ i \in DOMAIN frameData |->
                                   << frameData[i].region, frameData[i].method,
                                      frameData[i].year,
                                      toFixed0(frameData[i].deliveredCost, 10000,
                                               doubles_readmeA(frameData[i], s, "deliveredCost")),
                                      toFixed0(frameData[i].baseCo2, 10,
                                               doubles_readmeA(frameData[i], s, "baseCo2")),
                                      toFixed0(frameData[i].volume, 1,
                                               Whole(frameData[i].volume)) >> ],
                      marker |-> [ size |-> [ i \in DOMAIN frameData |-> frameData[i].bubbleSize ],
                                   color |-> [ i \in DOMAIN frameData |->
                                                 regionColor(frameData[i].region) ],
                                   opacity |-> [ i \in DOMAIN frameData |->
                                                   regionOpacity(frameData[i].region, s) ] ] ] >> ] ]

\* buildFrames(all) of the variants that animate
buildFrames(v, all, s) ==
    CASE v = "script" -> buildFrames_script(all)
      [] v = "part000" -> buildFrames_part000(all)
      [] v = "readmeA" -> buildFrames_readmeA(all, s)
      [] v = "readmeB" -> << >>

\* regionData.sort((a, b) => a.year - b.year): stable insertion by year
RECURSIVE sortByYearFrom(_, _, _)
sortByYearFrom(list, i, acc) ==
    IF i > Len(list) THEN acc
    ELSE LET before == SelectSeq(acc, LAMBDA a : a.year <= list[i].year)
             after == SelectSeq(acc, LAMBDA a : a.year > list[i].year)
         IN  sortByYearFrom(list, i + 1, before \o << list[i] >> \o after)
sortByYear(list) == sortByYearFrom(list, 1, << >>)

\* README buildTrails: two traces per region (ghost bubbles, connecting line)
buildTrails(allData) ==
    LET regs == unique([ i \in DOMAIN allData |-> allData[i].region ])
    IN  [ n \in 1..(2 * Len(regs)) |->
            LET region == regs[(n + 1) \div 2]
                regionData == sortByYear(SelectSeq(allData, LAMBDA d : d.region = region))
                xs == [ i \in DOMAIN regionData |-> regionData[i].deliveredCost ]
                ys == [ i \in DOMAIN regionData |-> regionData[i].baseCo2 ]
            IN  IF n % 2 = 1
                THEN [ x |-> xs, y |-> ys, mode |-> "markers",
                       marker |-> [ size |-> [ i \in DOMAIN regionData |->
                                                 regionData[i].bubbleSize ],
                                    color |-> regionColor(region),
                                    opacity |-> 15 ] ]
                ELSE [ x |-> xs, y |-> ys, mode |-> "lines",
                       line |-> [ width |-> 150, color |-> regionColor(region) ],
                       opacity |-> 30 ] ]

\* Plotly.addFrames(chart, frames): a frame whose name is already registered
\* replaces the registered one, any other frame is appended
RECURSIVE addFrames(_, _)
addFrames(registered, frames) ==
    IF frames = << >> THEN registered
    ELSE LET f == Head(frames)
             merged ==
                 IF \E i \in DOMAIN registered : registered[i].name = f.name
                 THEN [ i \in DOMAIN registered |->
                          IF registered[i].name = f.name THEN f ELSE registered[i] ]
                 ELSE Append(registered, f)
         IN  addFrames(merged, Tail(frames))

-----------------------------------------------------------------------------
(* Summary table *)

\* array.find(test): the matches in order; find returns the first one, or
\* undefined when there is none
matches(all, region, yr) == SelectSeq(all, LAMBDA d : d.region = region /\ d.year = yr)

cells_script ==
    { "usCost", "cnCost", "deltaCost", "usCo2", "cnCo2", "deltaCo2",
      "usAdj", "cnAdj", "deltaAdj" }

cells_readmeB ==
    { "usCostCell", "cnCostCell", "costDiffCell", "usCo2Cell", "cnCo2Cell",
      "co2DiffCell", "usAdjCostCell", "cnAdjCostCell", "adjCostDiffCell" }

\* script.js updateChart, lines 209-229; scen is the table computeScenario
\* returned under state s.  Reading a property of undefined throws a
\* TypeError: the three differences are computed before the first cell is
\* written, so the cells keep their text and the handler ends.
summary_script(scen, s, old) ==
    LET usM == matches(scen, "US", years_script[1])
        cnM == matches(scen, "China", years_script[1])
    IN  IF usM = << >> \/ cnM = << >>
        THEN [ threw |-> TRUE, cells |-> old ]
        ELSE LET us == usM[1]
                 cn == cnM[1]
                 usF(f) == doubles_script(us, s, f)
                 cnF(f) == doubles_script(cn, s, f)
                 costDiff == us.deliveredCost - cn.deliveredCost
                 co2Diff == us.co2 - cn.co2
                 adjDiff == us.carbonAdj - cn.carbonAdj
                 costDiffF == Minus(usF("deliveredCost"), cnF("deliveredCost"))
                 co2DiffF == Minus(usF("co2"), cnF("co2"))
                 adjDiffF == Minus(usF("carbonAdj"), cnF("carbonAdj"))
             IN  [ threw |-> FALSE,
                   cells |->
                     [ usCost |-> "$" \o toFixed0(us.deliveredCost, 10000, usF("deliveredCost")),
                       cnCost |-> "$" \o toFixed0(cn.deliveredCost, 10000, cnF("deliveredCost")),
                       deltaCost |-> (IF geq0(costDiff, costDiffF) THEN "+" ELSE "") \o "$"
                                       \o toFixed0(costDiff, 10000, costDiffF),
                       usCo2 |-> toFixed0(us.co2, 10, usF("co2")) \o " kg",
                       cnCo2 |-> toFixed0(cn.co2, 10, cnF("co2")) \o " kg",
                       deltaCo2 |-> (IF geq0(co2Diff, co2DiffF) THEN "+" ELSE "")
                                       \o toFixed0(co2Diff, 10, co2DiffF) \o " kg",
                       usAdj |-> "$" \o toFixed0(us.carbonAdj, 10000, usF("carbonAdj")),
                       cnAdj |-> "$" \o toFixed0(cn.carbonAdj, 10000, cnF("carbonAdj")),
                       deltaAdj |-> (IF geq0(adjDiff, adjDiffF) THEN "+" ELSE "") \o "$"
                                       \o toFixed0(adjDiff, 10000, adjDiffF) ] ]

\* part_000 updateChart, lines 175-188; scen is the table computeScenario
\* returned under state s.  The cells are written one statement at a time:
\* line 178 reads us.deliveredCost and writes usCost, line 179 reads
\* cn.deliveredCost.  With no US row nothing is written before the
\* TypeError; with a US row and no China row usCost is.
summary_part000(scen, s, old) ==
    LET usM == matches(scen, "US", years_script[1])
        cnM == matches(scen, "China", years_script[1])
    IN  IF usM = << >>
        THEN [ threw |-> TRUE, cells |-> old ]
        ELSE IF cnM = << >>
        THEN [ threw |-> TRUE,
               cells |-> [ old EXCEPT !.usCost =
                             toFixed0(usM[1].deliveredCost, 10000,
                                      doubles_script(usM[1], s, "deliveredCost")) ] ]
        ELSE LET us == usM[1]
                 cn == cnM[1]
                 usF(f) == doubles_script(us, s, f)
                 cnF(f) == doubles_script(cn, s, f)
             IN  [ threw |-> FALSE,
                   cells |->
                     [ usCost |-> toFixed0(us.deliveredCost, 10000, usF("deliveredCost")),
                       cnCost |-> toFixed0(cn.deliveredCost, 10000, cnF("deliveredCost")),
                       deltaCost |-> toFixed0(us.deliveredCost - cn.deliveredCost, 10000,
                                              Minus(usF("deliveredCost"), cnF("deliveredCost"))),
                       usCo2 |-> toFixed0(us.co2, 10, usF("co2")),
                       cnCo2 |-> toFixed0(cn.co2, 10, cnF("co2")),
                       deltaCo2 |-> toFixed0(us.co2 - cn.co2, 10, Minus(usF("co2"), cnF("co2"))),
                       usAdj |-> toFixed0(us.carbonAdj, 10000, usF("carbonAdj")),
                       cnAdj |-> toFixed0(cn.carbonAdj, 10000, cnF("carbonAdj")),
                       deltaAdj |-> toFixed0(us.carbonAdj - cn.carbonAdj, 10000,
                                             Minus(usF("carbonAdj"), cnF("carbonAdj"))) ] ]

\* README formatDiff(value, unit): value is the double f, x in units of 1/q
formatDiff(x, q, unit, f) ==
    LET sign == IF gt0(x, f) THEN "+" ELSE ""
    IN  IF unit = "USD" THEN sign \o "$" \o toFixed0(x, q, f)
        ELSE sign \o toFixed0(x, q, f) \o " " \o unit

\* README updateSummaryPanel; data is the result of its computeScenarioData
\* call under state s
updateSummaryPanel(data, s) ==
    LET usM == SelectSeq(data, LAMBDA d : d.region = "US")
        cnM == SelectSeq(data, LAMBDA d : d.region = "China")
    IN  IF usM = << >> \/ cnM = << >>
        THEN [ threw |-> FALSE, cells |-> [ c \in cells_readmeB |-> "N/A" ] ]
        ELSE LET us == usM[1]
                 cn == cnM[1]
                 usF(f) == doubles_readmeB(us, s, f)
                 cnF(f) == doubles_readmeB(cn, s, f)
                 costDiff == us.deliveredCost - cn.deliveredCost
                 co2Diff == us.baseCo2 - cn.baseCo2
                 adjCostDiff == us.carbonAdjustedCost - cn.carbonAdjustedCost
             IN  [ threw |-> FALSE,
                   cells |->
                     [ usCostCell |-> "$" \o toFixed0(us.deliveredCost, 10000, usF("deliveredCost")),
                       cnCostCell |-> "$" \o toFixed0(cn.deliveredCost, 10000, cnF("deliveredCost")),
                       costDiffCell |->
                         formatDiff(costDiff, 10000, "USD",
                                    Minus(usF("deliveredCost"), cnF("deliveredCost"))),
                       usCo2Cell |-> toFixed0(us.baseCo2, 10, usF("baseCo2")) \o " kg",
                       cnCo2Cell |-> toFixed0(cn.baseCo2, 10, cnF("baseCo2")) \o " kg",
                       co2DiffCell |->
                         formatDiff(co2Diff, 10, "kg", Minus(usF("baseCo2"), cnF("baseCo2"))),
                       usAdjCostCell |->
                         "$" \o toFixed0(us.carbonAdjustedCost, 10000, usF("carbonAdjustedCost")),
                       cnAdjCostCell |->
                         "$" \o toFixed0(cn.carbonAdjustedCost, 10000, cnF("carbonAdjustedCost")),
                       adjCostDiffCell |->
                         formatDiff(adjCostDiff, 10000, "USD",
                                    Minus(usF("carbonAdjustedCost"), cnF("carbonAdjustedCost"))) ] ]

-----------------------------------------------------------------------------
(* Global state, controls and presets *)

\* const state = { ... }
initialState(v) ==
    CASE v \in {"script", "part000"} ->
           [ tariff |-> 10, shipping |-> 60, incentive |-> 40, carbon |-> 75 ]
      [] v = "readmeA" ->
           [ tariff |-> 10, shipping |-> 60, incentive |-> 40, carbonPrice |-> 75,
             highlightedRegion |-> "null" ]
      [] v = "readmeB" ->
           [ year |-> 2024, tariffPercent |-> 10, shippingCost |-> 60,
             iraIncentive |-> 40, carbonPrice |-> 75 ]

\* the state keys that a slider is bound to
sliderKeys(v) ==
    CASE v \in {"script", "part000"} -> { "tariff", "shipping", "incentive", "carbon" }
      [] v = "readmeA" -> { "tariff", "shipping", "incentive", "carbonPrice" }
      [] v = "readmeB" -> { "year", "tariffPercent", "shippingCost", "iraIncentive",
                           "carbonPrice" }

\* Number(slider.value): the positions the sliders are moved to
sliderValues(key) ==
    CASE key = "year" -> { 2025, 2030 }
      [] key \in {"tariff", "tariffPercent"} -> { 0, 25 }
      [] key \in {"shipping", "shippingCost"} -> { 90 }
      [] key \in {"incentive", "iraIncentive"} -> { 0 }
      [] key \in {"carbon", "carbonPrice"} -> { 0 }

\* btn.dataset.type / btn.dataset.preset of the preset buttons
presetNames == { "baseline", "highTariff", "carbon2050", "carbon2030" }

\* mutant: the highTariff preset leaves the carbon price as it was
applyPreset_script_keepsCarbon(s, type) ==
    LET s1 == IF type = "baseline"
              THEN [ s EXCEPT !.tariff = 10, !.shipping = 60, !.incentive = 40, !.carbon = 75 ]
              ELSE s
        s2 == IF type = "highTariff"
              THEN [ s1 EXCEPT !.tariff = 30, !.shipping = 120, !.incentive = 25 ]
              ELSE s1
        s3 == IF type = "carbon2050"
              THEN [ s2 EXCEPT !.tariff = 5, !.shipping = 40, !.incentive = 80, !.carbon = 200 ]
              ELSE s2
    IN  s3

\* script.js / part_000 preset onclick: the three if statements
applyPreset_script(s, type) ==
    LET s1 == IF type = "baseline"
              THEN [ s EXCEPT !.tariff = 10, !.shipping = 60, !.incentive = 40, !.carbon = 75 ]
              ELSE s
        s2 == IF type = "highTariff"
              THEN [ s1 EXCEPT !.tariff = 30, !.shipping = 120, !.incentive = 25, !.carbon = 40 ]
              ELSE s1
        s3 == IF type = "carbon2050"
              THEN [ s2 EXCEPT !.tariff = 5, !.shipping = 40, !.incentive = 80, !.carbon = 200 ]
              ELSE s2
    IN  s3

\* mutant: a final else branch falls back to the baseline bundle
applyPreset_readmeB_defaultBaseline(s, name) ==
    IF name = "highTariff"
    THEN [ s EXCEPT !.year = 2025, !.tariffPercent = 25, !.shippingCost = 80,
                    !.iraIncentive = 50, !.carbonPrice = 75 ]
    ELSE IF name = "carbon2030"
    THEN [ s EXCEPT !.year = 2030, !.tariffPercent = 10, !.shippingCost = 90,
                    !.iraIncentive = 80, !.carbonPrice = 200 ]
    ELSE [ s EXCEPT !.year = 2024, !.tariffPercent = 10, !.shippingCost = 60,
                    !.iraIncentive = 40, !.carbonPrice = 75 ]

\* README applyPreset: the if / else if chain
applyPreset_readmeB(s, name) ==
    IF name = "baseline"
    THEN [ s EXCEPT !.year = 2024, !.tariffPercent = 10, !.shippingCost = 60,
                    !.iraIncentive = 40, !.carbonPrice = 75 ]
    ELSE IF name = "highTariff"
    THEN [ s EXCEPT !.year = 2025, !.tariffPercent = 25, !.shippingCost = 80,
                    !.iraIncentive = 50, !.carbonPrice = 75 ]
    ELSE IF name = "carbon2030"
    THEN [ s EXCEPT !.year = 2030, !.tariffPercent = 10, !.shippingCost = 90,
                    !.iraIncentive = 80, !.carbonPrice = 200 ]
    ELSE s

\* the slider elements and labels before any handler has run
initialUi(v) ==
    [ slider |-> [ k \in sliderKeys(v) |-> initialState(v)[k] ],
      label |-> [ k \in sliderKeys(v) |-> "" ] ]

\* script.js / part_000: label.textContent = slider.value
label_script(key, value) == ToString(value)

\* README initControls / applyPreset label templates
label_readmeB(key, value) ==
    CASE key = "year" -> ToString(value)
      [] key = "tariffPercent" -> ToString(value) \o "%"
      [] key \in {"shippingCost", "iraIncentive"} -> "$" \o ToString(value) \o "/t"
      [] key = "carbonPrice" -> "$" \o ToString(value) \o "/t CO2"

\* "Sync UI": every slider and label rewritten from the state
syncUi_script(s) ==
    [ slider |-> [ k \in sliderKeys("script") |-> s[k] ],
      label |-> [ k \in sliderKeys("script") |-> label_script(k, s[k]) ] ]

syncUi_readmeB(s) ==
    [ slider |-> [ k \in sliderKeys("readmeB") |-> s[k] ],
      label |-> [ k \in sliderKeys("readmeB") |-> label_readmeB(k, s[k]) ] ]

-----------------------------------------------------------------------------
(* Chart initialisation and update *)

\* script.js updateChart()
\* mutant: updateChart redraws the traces but hands no frames to the chart
updateChart_script_noFrames(table, s, registered, cells) ==
    LET scen == computeScenario_script(table, s)
        sm == summary_script(scen, s, cells)
    IN  [ table |-> table,
          scenario |-> scen,
          reacted |-> TRUE,
          chartData |-> tracesOfYear_script(scen, years_script[1]),
          chartFrames |-> registered,
          summary |-> sm.cells,
          threw |-> sm.threw ]

updateChart_script(table, s, registered, cells) ==
    LET scen == computeScenario_script(table, s)
        frames == buildFrames_script(scen)
        sm == summary_script(scen, s, cells)
    IN  [ table |-> table,
          scenario |-> scen,
          reacted |-> TRUE,
          chartData |-> tracesOfYear_script(scen, years_script[1]),
          chartFrames |-> addFrames(registered, frames),
          summary |-> sm.cells,
          threw |-> sm.threw ]

\* mutant: the transformer writes the delivered cost into the rows of the
\* Observation table instead of into copies
updateChart_part000_inPlace(table, s, registered, cells) ==
    LET scen == computeScenario_part000(table, s)
        frames == buildFrames_part000(scen)
        tr == traceOfYear_part000(scen, years_script[1])
        sm == summary_part000(scen, s, cells)
    IN  [ table |-> [ i \in DOMAIN table |->
                        [ table[i] EXCEPT !.cost = scen[i].deliveredCost ] ],
          scenario |-> scen,
          reacted |-> TRUE,
          chartData |-> << [ x |-> tr.x, y |-> tr.y, mode |-> "markers",
                             marker |-> tr.marker ] >>,
          chartFrames |-> addFrames(registered, frames),
          summary |-> sm.cells,
          threw |-> sm.threw ]

\* part_000 updateChart().  table is the Observation table as the call
\* leaves it: computeScenario copies every row ({ ...d }) and writes to the copy
updateChart_part000(table, s, registered, cells) ==
    LET scen == computeScenario_part000(table, s)
        frames == buildFrames_part000(scen)
        tr == traceOfYear_part000(scen, years_script[1])
        sm == summary_part000(scen, s, cells)
    IN  [ table |-> table,
          scenario |-> scen,
          reacted |-> TRUE,
          chartData |-> << [ x |-> tr.x, y |-> tr.y, mode |-> "markers",
                             marker |-> tr.marker ] >>,
          chartFrames |-> addFrames(registered, frames),
          summary |-> sm.cells,
          threw |-> sm.threw ]

\* README updateChart() (Gapminder version)
updateChart_readmeA(table, s, registered, cells) ==
    LET scen == computeScenario_readmeA(table, s)
        frames == buildFrames_readmeA(scen, s)
        trails == buildTrails(scen)
    IN  IF frames = << >>
        THEN \* frames[0] is undefined: TypeError before Plotly.react
             [ table |-> table, scenario |-> scen, reacted |-> FALSE,
               chartData |-> << >>,
               chartFrames |-> registered, summary |-> cells, threw |-> TRUE ]
        ELSE [ table |-> table,
               scenario |-> scen,
               reacted |-> TRUE,
               chartData |-> trails \o << frames[1].data[1] >>,
               chartFrames |-> addFrames(registered, frames),
               summary |-> cells,
               threw |-> FALSE ]

\* README initChart / updateChart (single-year version): the one trace; data
\* is the result of computeScenarioData under state s
trace_readmeB(data, s) ==
    [ x |-> [ i \in DOMAIN data |-> data[i].deliveredCost ],
      y |-> [ i \in DOMAIN data |-> data[i].baseCo2 ],
      text |-> [ i \in DOMAIN data |->
                   << data[i].region, data[i].method,
                      toFixed0(data[i].deliveredCost, 10000,
                               doubles_readmeB(data[i], s, "deliveredCost")),
                      toFixed0(data[i].baseCo2, 10, doubles_readmeB(data[i], s, "baseCo2")),
                      toFixed0(data[i].volume, 1, Whole(data[i].volume)),
                      toFixed0(data[i].carbonAdjustedCost, 10000,
                               doubles_readmeB(data[i], s, "carbonAdjustedCost")) >> ],
      marker |-> [ size |-> [ i \in DOMAIN data |->
                                Max(1000, sqrt100(Abs(data[i].volume)) \div 30) ],
                   color |-> [ i \in DOMAIN data |-> regionColor(data[i].region) ] ] ]

\* README onStateChange(): updateChart(); updateSummaryPanel();
\* each of the two calls computeScenarioData()
onStateChange(table, s, registered, cells) ==
    LET data == computeScenarioData(table, s)
        again == computeScenarioData(table, s)
        sm == updateSummaryPanel(again, s)
    IN  [ table |-> table,
          scenario |-> again,
          reacted |-> TRUE,
          chartData |-> << trace_readmeB(data, s) >>,
          chartFrames |-> registered,
          summary |-> sm.cells,
          threw |-> sm.threw ]

updateChart(v, table, s, registered, cells) ==
    CASE v = "script" -> updateChart_script(table, s, registered, cells)
      [] v = "part000" -> updateChart_part000(table, s, registered, cells)
      [] v = "readmeA" -> updateChart_readmeA(table, s, registered, cells)
      [] v = "readmeB" -> onStateChange(table, s, registered, cells)

\* initChart(): the frames it builds and hands to the deferred callback
\* (script.js, part_000) or registers at once (README Gapminder version)
initFrames(v, table, s) ==
    CASE v = "script" -> buildFrames_script(computeScenario_script(table, s))
      [] v = "part000" -> buildFrames_part000(computeScenario_part000(table, s))
      [] v = "readmeA" -> buildFrames_readmeA(computeScenario_readmeA(table, s), s)
      [] v = "readmeB" -> << >>

\* README initChart (Gapminder version): mainBubbleTrace
mainBubbleTrace(scen, s) ==
    LET years == unique([ i \in DOMAIN scen |-> scen[i].year ])
        initData == SelectSeq(scen, LAMBDA d : d.year = years[1])
    IN  [ x |-> [ i \in DOMAIN initData |-> initData[i].deliveredCost ],
          y |-> [ i \in DOMAIN initData |-> initData[i].baseCo2 ],
          mode |-> "markers",
          text |-> [ i \in DOMAIN initData |->
                       << initData[i].region, initData[i].method,
                          toFixed0(initData[i].deliveredCost, 10000,
                                   doubles_readmeA(initData[i], s, "deliveredCost")),
                          toFixed0(initData[i].baseCo2, 10,
                                   doubles_readmeA(initData[i], s, "baseCo2")) >> ],
          marker |-> [ size |-> [ i \in DOMAIN initData |-> initData[i].bubbleSize ],
                       color |-> [ i \in DOMAIN initData |-> regionColor(initData[i].region) ],
                       opacity |-> [ i \in DOMAIN initData |->
                                       regionOpacity(initData[i].region, s) ] ] ]

\* initChart(): the traces handed to Plotly.newPlot
initTraces(v, table, s) ==
    CASE v = "script" ->
           tracesOfYear_script(computeScenario_script(table, s), years_script[1])
      [] v = "part000" ->
           LET tr == traceOfYear_part000(computeScenario_part000(table, s), years_script[1])
           IN  << [ x |-> tr.x, y |-> tr.y, mode |-> "markers", type |-> "scatter",
                    text |-> [ i \in DOMAIN tr.text |-> tr.text[i][1] ],
                    marker |-> tr.marker ] >>
      [] v = "readmeA" ->
           LET scen == computeScenario_readmeA(table, s)
           IN  buildTrails(scen) \o << mainBubbleTrace(scen, s) >>
      [] v = "readmeB" ->
           << trace_readmeB(computeScenarioData(table, s), s) >>

\* README plotly_click handler: the region of the clicked point,
\* scenario.filter(d => d.year === initYear)[idx].region
clickedRegion(table, idx) ==
    LET years == unique([ i \in DOMAIN table |-> table[i].year ])
        initData == SelectSeq(table, LAMBDA d : d.year = years[1])
    IN  initData[idx + 1].region

\* mutant: a click on the highlighted region does not clear the highlight
toggleHighlight_neverClears(s, region) == [ s EXCEPT !.highlightedRegion = region ]

\* README plotly_click handler: the toggle
toggleHighlight(s, region) ==
    IF s.highlightedRegion = region
    THEN [ s EXCEPT !.highlightedRegion = "null" ]
    ELSE [ s EXCEPT !.highlightedRegion = region ]

\* mutant: the handler writes the slider's value to every numeric field
setSlider_everyField(s, key, value) ==
    [ k \in DOMAIN s |-> IF k = "highlightedRegion" THEN s[k] ELSE value ]

\* slider oninput: state[key] = Number(slider.value)
setSlider(s, key, value) == [ s EXCEPT ![key] = value ]

\* preset onclick / applyPreset
applyPreset(v, s, name) ==
    IF v = "readmeB" THEN applyPreset_readmeB(s, name) ELSE applyPreset_script(s, name)

-----------------------------------------------------------------------------
(* Events *)

event(kind, key, value, changed) ==
    [ kind |-> kind, key |-> key, value |-> value, changed |-> changed ]

\* document.addEventListener("DOMContentLoaded", ...)
DOMContentLoaded ==
    /\ phase = "loading"
    /\ phase' = "ready"
    /\ \E frames0 \in { initFrames(variant, baseData, state) } :
       \E r \in {
           \* README Gapminder version: initChart registers its frames itself
           \* and no updateChart follows; README single-year version: initChart
           \* then updateSummaryPanel; script.js / part_000: initChart then
           \* updateChart
                IF variant = "readmeA"
                THEN [ table |-> baseData,
                       scenario |-> computeScenario_readmeA(baseData, state),
                       chartFrames |-> addFrames(chartFrames, frames0),
                       summary |-> summary, threw |-> FALSE ]
                ELSE updateChart(variant, baseData, state, chartFrames, summary) } :
           /\ baseData' = r.table
           /\ scenario' = r.scenario
           /\ chartData' = IF variant \in {"script", "part000"} /\ r.reacted
                           THEN r.chartData
                           ELSE initTraces(variant, baseData, state)
           /\ chartFrames' = r.chartFrames
           /\ pending' = CASE variant \in {"script", "part000"} ->
                                << [ kind |-> "addFrames", frames |-> frames0 ] >>
                           [] variant = "readmeA" ->
                                << [ kind |-> "bindClick", frames |-> << >> ] >>
                           [] variant = "readmeB" -> << >>
           /\ summary' = r.summary
           /\ threw' = r.threw
    /\ ui' = CASE variant \in {"script", "part000"} ->
                    [ ui EXCEPT !.label = [ k \in DOMAIN ui.label |->
                                              label_script(k, ui.slider[k]) ] ]
               [] variant = "readmeA" -> ui
               [] variant = "readmeB" ->
                    [ ui EXCEPT !.label = [ k \in DOMAIN ui.label |->
                                              label_readmeB(k, state[k]) ] ]
    /\ lastEvent' = event("load", "", 0, FALSE)
    /\ redraws' = IF variant \in {"script", "part000"} THEN 1 ELSE 0
    /\ UNCHANGED << variant, state, clickBound >>

\* the handler's call of updateChart() / onStateChange() under the new state
Redraw(newState) ==
    \E r \in { updateChart(variant, baseData, newState, chartFrames, summary) } :
        /\ baseData' = r.table
        /\ scenario' = r.scenario
        /\ chartData' = IF r.reacted THEN r.chartData ELSE chartData
        /\ chartFrames' = r.chartFrames
        /\ summary' = r.summary
        /\ threw' = r.threw
        /\ redraws' = 1

\* mutant: the handler sets the field and the label and does not redraw
SliderInput_noRedraw(key, value) ==
    /\ phase = "ready"
    /\ key \in sliderKeys(variant)
    /\ state' = setSlider(state, key, value)
    /\ ui' = [ ui EXCEPT !.slider[key] = value ]
    /\ redraws' = 0
    /\ lastEvent' = event("slider", key, value, state' # state)
    /\ UNCHANGED << variant, baseData, phase, pending, clickBound, scenario,
                    chartData, chartFrames, summary, threw >>

\* slider.oninput / the "input" listeners
SliderInput(key, value) ==
    /\ phase = "ready"
    /\ key \in sliderKeys(variant)
    /\ state' = setSlider(state, key, value)
    /\ ui' = [ ui EXCEPT !.slider[key] = value,
                         !.label[key] = CASE variant \in {"script", "part000"} ->
                                               label_script(key, value)
                                          [] variant = "readmeA" -> @
                                          [] variant = "readmeB" ->
                                               label_readmeB(key, value) ]
    /\ Redraw(state')
    /\ lastEvent' = event("slider", key, value, state' # state)
    /\ UNCHANGED << variant, phase, pending, clickBound >>

\* btn.onclick of a preset button / applyPreset(btn.dataset.preset)
PresetClick(name) ==
    /\ phase = "ready"
    /\ variant # "readmeA"
    /\ state' = applyPreset(variant, state, name)
    /\ ui' = IF variant = "readmeB" THEN syncUi_readmeB(state') ELSE syncUi_script(state')
    /\ Redraw(state')
    /\ lastEvent' = event("preset", name, 0, state' # state)
    /\ UNCHANGED << variant, phase, pending, clickBound >>

\* chart.on("plotly_click", ...) of the README Gapminder version
ChartClick(idx) ==
    /\ phase = "ready"
    /\ variant = "readmeA"
    /\ clickBound
    /\ idx < Len(SelectSeq(baseData, LAMBDA d : d.year = baseData[1].year))
    /\ LET region == clickedRegion(baseData, idx)
       IN  /\ state' = toggleHighlight(state, region)
           /\ lastEvent' = event("click", region, idx, TRUE)
    /\ Redraw(state')
    /\ UNCHANGED << variant, phase, pending, clickBound, ui >>

\* the promise of Plotly.newPlot resolves and its .then callback runs
NewPlotResolved ==
    /\ phase = "ready"
    /\ pending # << >>
    /\ LET cb == Head(pending)
       IN  /\ chartFrames' = IF cb.kind = "addFrames"
                             THEN addFrames(chartFrames, cb.frames)
                             ELSE chartFrames
           /\ clickBound' = IF cb.kind = "bindClick" THEN TRUE ELSE clickBound
    /\ pending' = Tail(pending)
    /\ lastEvent' = event("resolved", "", 0, FALSE)
    /\ redraws' = 0
    /\ UNCHANGED << variant, baseData, state, phase, scenario, chartData, ui,
                    summary, threw >>

-----------------------------------------------------------------------------
(* Specification *)

InitWith(v, table) ==
    /\ variant = v
    /\ baseData = table
    /\ state = initialState(v)
    /\ phase = "loading"
    /\ scenario = << >>
    /\ chartData = << >>
    /\ chartFrames = << >>
    /\ pending = << >>
    /\ clickBound = FALSE
    /\ ui = initialUi(v)
    /\ summary = [ c \in (IF v = "readmeB" THEN cells_readmeB
                          ELSE IF v = "readmeA" THEN {} ELSE cells_script) |-> "" ]
    /\ threw = FALSE
    /\ lastEvent = event("none", "", 0, FALSE)
    /\ redraws = 0

Init == \E v \in Variants, seed \in 1..NumSeeds : InitWith(v, genData(v, seed))

Next ==
    \/ DOMContentLoaded
    \/ \E key \in sliderKeys(variant) : \E value \in sliderValues(key) :
         SliderInput(key, value)
    \/ \E name \in presetNames : PresetClick(name)
    \/ \E idx \in 0..(Len(regions) - 1) : ChartClick(idx)
    \/ NewPlotResolved

Spec == Init /\ [][Next]_vars

-----------------------------------------------------------------------------
(* Vocabulary of the properties *)

\* the Observation fields and ScenarioState fields under the names each
\* variant gives them
Cost(d) == IF variant \in {"script", "part000"} THEN d.cost ELSE d.baseCost
Co2(d) == IF variant \in {"script", "part000"} THEN d.co2 ELSE d.baseCo2
CarbonAdjusted(d) ==
    IF variant \in {"script", "part000"} THEN d.carbonAdj ELSE d.carbonAdjustedCost
Tariff(s) == IF variant = "readmeB" THEN s.tariffPercent ELSE s.tariff
Shipping(s) == IF variant = "readmeB" THEN s.shippingCost ELSE s.shipping
Incentive(s) == IF variant = "readmeB" THEN s.iraIncentive ELSE s.incentive
CarbonPrice(s) == IF variant \in {"script", "part000"} THEN s.carbon ELSE s.carbonPrice

\* the expressions the loaded variant's transformer evaluates for a derived
\* row d
DeliveredCostDouble(d) ==
    CASE variant \in {"script", "part000"} -> doubles_script(d, state, "deliveredCost")
      [] variant = "readmeA" -> doubles_readmeA(d, state, "deliveredCost")
      [] variant = "readmeB" -> doubles_readmeB(d, state, "deliveredCost")
CarbonAdjustedDouble(d) ==
    CASE variant \in {"script", "part000"} -> doubles_script(d, state, "carbonAdj")
      [] variant = "readmeA" -> doubles_readmeA(d, state, "carbonAdjustedCost")
      [] variant = "readmeB" -> doubles_readmeB(d, state, "carbonAdjustedCost")
\* the expression x evaluates to the number n / q
IsNumber(x, n, q) == jsValue[x \o Num(n, q) \o Ins("=", 0, 1)]

IsDomestic(region) == region = "US"
IsOverseas(region) == region \in {"EU", "Australia", "Brazil", "China", "South Africa"}

\* the Observations the latest recompute transformed
Transformed ==
    IF variant = "readmeB" THEN SelectSeq(baseData, LAMBDA d : d.year = state.year)
    ELSE baseData

\* the derived table has one row per transformed Observation, in order,
\* carrying the Observation's own fields
RowsFollowTable ==
    /\ Len(scenario) = Len(Transformed)
    /\ \A i \in DOMAIN scenario :
         /\ scenario[i].region = Transformed[i].region
         /\ scenario[i].year = Transformed[i].year
         /\ Cost(scenario[i]) = Cost(Transformed[i])
         /\ Co2(scenario[i]) = Co2(Transformed[i])
         /\ scenario[i].volume = Transformed[i].volume

-----------------------------------------------------------------------------
(* C1: in every reachable state after a recompute, every Observation has a   *)
(* derived row whose deliveredCost is cost + tariffAdj + shippingAdj -       *)
(* incentiveAdj, with tariffAdj = (tariff/100)*cost and shippingAdj =        *)
(* shipping for overseas regions (0 for domestic) and incentiveAdj =         *)
(* incentive for domestic regions (0 for overseas).                          *)
C1_DeliveredCostFormula ==
    phase = "ready" =>
      /\ RowsFollowTable
      /\ \A i \in DOMAIN scenario :
           LET d == scenario[i]
               tariffAdj == IF IsOverseas(d.region)
                            THEN (Tariff(state) * Cost(d)) \div 100 ELSE 0
               shippingAdj == IF IsOverseas(d.region) THEN Dollars(Shipping(state)) ELSE 0
               incentiveAdj == IF IsDomestic(d.region) THEN Dollars(Incentive(state)) ELSE 0
           IN  d.deliveredCost = Cost(d) + tariffAdj + shippingAdj - incentiveAdj

\* a slider has been moved to a non-zero tariff while the incentive is
\* non-zero, and the derived table holds domestic and overseas rows
C1_Witness ==
    /\ phase = "ready"
    /\ lastEvent.kind = "slider"
    /\ Tariff(state) = 25
    /\ Incentive(state) > 0
    /\ Shipping(state) > 0
    /\ \E i, j \in DOMAIN scenario :
         /\ IsDomestic(scenario[i].region)
         /\ IsOverseas(scenario[j].region)
         /\ scenario[j].deliveredCost > Cost(scenario[j])
         /\ scenario[i].deliveredCost < Cost(scenario[i])

\* values a scenario field is varied over when independence is checked
OtherValues == { 0, 7, 50 }

(* C2: in every reachable state, the delivered cost of every domestic (US)   *)
(* row is the same whatever the tariff and the shipping cost are set to, and *)
(* the delivered cost of every overseas row is the same whatever the         *)
(* incentive is set to.                                                      *)
C2_AdjustmentsByRegionClass ==
    phase = "ready" =>
      \A i \in DOMAIN scenario :
        LET d == scenario[i]
        IN  /\ IsDomestic(d.region) =>
                 \A t \in OtherValues, sh \in OtherValues :
                   LET s2 == IF variant = "readmeB"
                             THEN [ state EXCEPT !.tariffPercent = t, !.shippingCost = sh ]
                             ELSE [ state EXCEPT !.tariff = t, !.shipping = sh ]
                   IN  deriveRow(variant, d, s2).deliveredCost = d.deliveredCost
            /\ IsOverseas(d.region) =>
                 \A inc \in OtherValues :
                   LET s2 == IF variant = "readmeB"
                             THEN [ state EXCEPT !.iraIncentive = inc ]
                             ELSE [ state EXCEPT !.incentive = inc ]
                   IN  deriveRow(variant, d, s2).deliveredCost = d.deliveredCost

\* a recompute under non-zero tariff, shipping and incentive, on a table
\* with domestic and overseas rows
C2_Witness ==
    /\ phase = "ready"
    /\ Tariff(state) > 0 /\ Shipping(state) > 0 /\ Incentive(state) > 0
    /\ lastEvent.kind \in {"slider", "preset"}
    /\ \E i, j \in DOMAIN scenario :
         IsDomestic(scenario[i].region) /\ IsOverseas(scenario[j].region)

(* C3: in every reachable state, the carbon-adjusted cost of every derived   *)
(* row is that row's deliveredCost plus (co2/1000) * the carbon price of the *)
(* current state.                                                            *)
C3_CarbonAdjustedCost ==
    phase = "ready" =>
      \A i \in DOMAIN scenario :
        CarbonAdjusted(scenario[i]) =
          scenario[i].deliveredCost + Co2(scenario[i]) * CarbonPrice(state)

\* a recompute with a carbon price of 200 and an overseas row whose
\* delivered cost differs from its base cost
C3_Witness ==
    /\ phase = "ready"
    /\ CarbonPrice(state) = 200
    /\ \E i \in DOMAIN scenario :
         /\ scenario[i].deliveredCost # Cost(scenario[i])
         /\ CarbonAdjusted(scenario[i]) > scenario[i].deliveredCost

\* the four scenario fields, and the preset names the handler acts on
ScenarioFields ==
    CASE variant \in {"script", "part000"} -> { "tariff", "shipping", "incentive", "carbon" }
      [] variant = "readmeA" -> { "tariff", "shipping", "incentive", "carbonPrice" }
      [] variant = "readmeB" -> { "tariffPercent", "shippingCost", "iraIncentive",
                                 "carbonPrice" }
RecognizedPresets ==
    IF variant = "readmeB" THEN { "baseline", "highTariff", "carbon2030" }
    ELSE { "baseline", "highTariff", "carbon2050" }

\* a ScenarioState none of whose fields holds a value a preset assigns
Blank == [ k \in DOMAIN state |-> -1 ]

(* C4: in the state a click on a recognized preset button leaves, each of    *)
(* the four scenario fields holds the value of the clicked preset's bundle,  *)
(* whatever it held before the click, and the derived table is the one       *)
(* computed from that state: the recompute the click triggers sees no mix of *)
(* old and new values.                                                       *)
C4_PresetResetsAllFields ==
    (lastEvent.kind = "preset" /\ lastEvent.key \in RecognizedPresets) =>
      /\ \A k \in ScenarioFields :
           state[k] = applyPreset(variant, Blank, lastEvent.key)[k]
      /\ \A k \in ScenarioFields : state[k] >= 0
      /\ scenario = computeScenario(variant, baseData, state)

\* the highTariff preset has just been clicked and changed the state
C4_Witness ==
    /\ lastEvent.kind = "preset"
    /\ lastEvent.key = "highTariff"
    /\ lastEvent.changed
    /\ Tariff(state) > 10
    /\ scenario # << >>

(* C5: a recompute that a handler runs while leaving the ScenarioState as it *)
(* was yields the derived table the previous recompute yielded, every        *)
(* deliveredCost, carbon-adjusted cost and bubbleSize included.              *)
C5_RecomputeIdempotent ==
    [][ ( /\ phase = "ready"
          /\ lastEvent'.kind \in {"slider", "preset", "click"}
          /\ state' = state )
        => scenario' = scenario ]_vars

\* a handler has recomputed without changing the state: a preset clicked
\* again, or a slider moved to the value it already had
C5_Witness ==
    /\ phase = "ready"
    /\ lastEvent.kind \in {"slider", "preset"}
    /\ ~lastEvent.changed
    /\ state # initialState(variant)
    /\ scenario # << >>
    /\ scenario = computeScenario(variant, baseData, state)

\* the radius of every drawn bubble, with the volume it is computed from
\* (the README single-year version computes it in the trace)
Bubbles ==
    [ i \in DOMAIN scenario |->
        [ volume |-> scenario[i].volume,
          size |-> IF variant = "readmeB" THEN chartData[1].marker.size[i]
                   ELSE scenario[i].bubbleSize ] ]

\* part_000 genData: the smallest volume, 30000 + t * 1000 + Math.random() * 20000
\* at t = 0 with a draw of 0
minVolume_part000 == 30000

\* the minimum radius of each variant, in 0.01 px: the first argument of
\* Math.max in script.js (12) and in the README transformers (10); part_000
\* has no Math.max, its radius is smallest at the generator's smallest volume
minRadius(v) ==
    CASE v = "script" -> 1200
      [] v \in {"readmeA", "readmeB"} -> 1000
      [] v = "part000" -> sqrt100(minVolume_part000) \div 20

(* C6: in every variant, every bubble the program draws has a radius of at   *)
(* least a fixed positive minimum of that variant, for every volume the      *)
(* generator produces.                                                       *)
C6_MinimumRadius ==
    phase = "ready" =>
      /\ minRadius(variant) > 0
      /\ \A i \in DOMAIN Bubbles : Bubbles[i].size >= minRadius(variant)

\* part_000, the variant without Math.max, draws a bubble smaller than the
\* floor of the README transformers and it is not below the variant's minimum
C6_Witness ==
    /\ phase = "ready"
    /\ variant = "part000"
    /\ \E i \in DOMAIN Bubbles :
         /\ Bubbles[i].size < minRadius("readmeA")
         /\ Bubbles[i].size >= minRadius(variant)

\* README, the floor at work: a bubble whose sqrt(volume) / 25 is below 10 px
\* is drawn with 10 px
FlooredBubble ==
    /\ phase = "ready"
    /\ variant = "readmeA"
    /\ \E i \in DOMAIN Bubbles :
         /\ sqrt100(Bubbles[i].volume) \div 25 < minRadius(variant)
         /\ Bubbles[i].size = minRadius(variant)

(* C7: in every reachable state every bubbleSize is non-negative, and of two *)
(* Observations the one with the larger volume never has the smaller         *)
(* bubbleSize.                                                               *)
C7_BubbleSizeMonotone ==
    phase = "ready" =>
      /\ \A i \in DOMAIN Bubbles : Bubbles[i].size >= 0
      /\ \A i, j \in DOMAIN Bubbles :
           Bubbles[i].volume <= Bubbles[j].volume => Bubbles[i].size <= Bubbles[j].size

\* two drawn bubbles of different volume and different radius, after a
\* slider has changed the state
C7_Witness ==
    /\ phase = "ready"
    /\ lastEvent.kind = "slider"
    /\ lastEvent.changed
    /\ \E i, j \in DOMAIN Bubbles :
         /\ Bubbles[i].volume < Bubbles[j].volume
         /\ Bubbles[i].size < Bubbles[j].size

(* C8: under tariff 10, shipping 60, incentive 40 and carbon price 75, a US  *)
(* Observation with cost 950 and co2 380 has deliveredCost 910 and           *)
(* carbon-adjusted cost 938.5, and a China Observation with cost 680 and co2 *)
(* 2100 has deliveredCost 808 and carbon-adjusted cost 965.5.  In script.js, *)
(* part_000 and the README computeScenario these are the very numbers the    *)
(* code holds; the README computeScenarioData applies the tariff as a        *)
(* multiplier and holds them up to the rounding of that form.                *)
C8_WorkedExamples ==
    ( /\ phase = "ready"
      /\ Tariff(state) = 10 /\ Shipping(state) = 60
      /\ Incentive(state) = 40 /\ CarbonPrice(state) = 75 ) =>
      \A i \in DOMAIN scenario :
        LET d == scenario[i]
        IN  /\ (d.region = "US" /\ Cost(d) = Dollars(950) /\ Co2(d) = Kg(380)) =>
                 /\ d.deliveredCost = Dollars(910)
                 /\ CarbonAdjusted(d) = Dollars(938) + 5000
                 /\ variant # "readmeB" =>
                      /\ IsNumber(DeliveredCostDouble(d), 910, 1)
                      /\ IsNumber(CarbonAdjustedDouble(d), 9385, 10)
            /\ (d.region = "China" /\ Cost(d) = Dollars(680) /\ Co2(d) = Kg(2100)) =>
                 /\ d.deliveredCost = Dollars(808)
                 /\ CarbonAdjusted(d) = Dollars(965) + 5000
                 /\ variant # "readmeB" =>
                      /\ IsNumber(DeliveredCostDouble(d), 808, 1)
                      /\ IsNumber(CarbonAdjustedDouble(d), 9655, 10)

\* the derived table holds both Observations of the example under the
\* example's state
C8_Witness ==
    /\ phase = "ready"
    /\ variant = "readmeA"
    /\ Tariff(state) = 10 /\ Shipping(state) = 60
    /\ Incentive(state) = 40 /\ CarbonPrice(state) = 75
    /\ \E i, j \in DOMAIN scenario :
         /\ scenario[i].region = "US" /\ Cost(scenario[i]) = Dollars(950)
         /\ Co2(scenario[i]) = Kg(380)
         /\ scenario[j].region = "China" /\ Cost(scenario[j]) = Dollars(680)
         /\ Co2(scenario[j]) = Kg(2100)

\* the rows the comparison display looks up for a region: the start year's
\* row (script.js, part_000) or the current year's row (README)
ComparedRows(region) ==
    SelectSeq(scenario, LAMBDA d :
        d.region = region /\ (variant = "readmeB" \/ d.year = years_script[1]))

\* every generator emits all six regions for every year, so the comparison
\* display always finds the US row and the China row: the branch of the
\* README that writes "N/A" and the unguarded reads of script.js and part_000
\* on a missing row are never reached
ComparedRowsFound ==
    (phase = "ready" /\ variant \in {"script", "part000", "readmeB"}) =>
      /\ ComparedRows("US") # << >>
      /\ ComparedRows("China") # << >>

\* the frames buildFrames returns for the current derived table
BuiltFrames == buildFrames(variant, scenario, state)
YearsOf(all) == { all[i].year : i \in DOMAIN all }

\* the points of a frame, each named by its trace and its position in the
\* trace, and the fields a point is drawn from
PointIds(frame) ==
    UNION { { << t, i >> : i \in DOMAIN frame.data[t].x } : t \in DOMAIN frame.data }
PointRegion(frame, p) ==
    IF variant = "script" THEN frame.data[p[1]].name
    ELSE frame.data[p[1]].text[p[2]][1]
PointOfRow(frame, p, d) ==
    /\ PointRegion(frame, p) = d.region
    /\ frame.data[p[1]].x[p[2]] = d.deliveredCost
    /\ frame.data[p[1]].y[p[2]] = Co2(d)
    /\ frame.data[p[1]].marker.size[p[2]] = d.bubbleSize

(* C10: buildFrames returns one frame per distinct year of the derived       *)
(* table, in ascending year order and named by the year; each frame holds    *)
(* exactly one point per region, drawn from the derived row of that region   *)
(* and year; every derived row appears in exactly one frame.                 *)
C10_FramesPartitionByYear ==
    (phase = "ready" /\ variant \in {"script", "part000", "readmeA"}) =>
      LET F == BuiltFrames
          Y == YearsOf(scenario)
      IN  /\ Len(F) = Cardinality(Y)
          /\ \A k \in DOMAIN F :
               \E yr \in Y :
                 /\ F[k].name = ToString(yr)
                 /\ Cardinality({ y \in Y : y < yr }) = k - 1
                 /\ \A r \in Range(regions) :
                      Cardinality({ p \in PointIds(F[k]) : PointRegion(F[k], p) = r }) = 1
                 /\ \A p \in PointIds(F[k]) :
                      \E i \in DOMAIN scenario :
                        /\ scenario[i].year = yr
                        /\ PointOfRow(F[k], p, scenario[i])
          /\ \A i \in DOMAIN scenario :
               Cardinality({ k \in DOMAIN F :
                   \E p \in PointIds(F[k]) : PointOfRow(F[k], p, scenario[i]) }) = 1

\* a slider handler has built the frames of a table of several years and
\* registered them
C10_Witness ==
    /\ phase = "ready"
    /\ lastEvent.kind = "slider"
    /\ lastEvent.changed
    /\ variant \in {"script", "part000", "readmeA"}
    /\ Len(BuiltFrames) >= 2
    /\ chartFrames = BuiltFrames
    /\ \E k \in DOMAIN BuiltFrames : Cardinality(PointIds(BuiltFrames[k])) = Len(regions)

\* the variants that animate over the years
Animated == { "script", "part000", "readmeA" }

\* the frames are one per year of the dataset, and their points are exactly
\* the Observations transformed under the state s
FramesFromState(frames, s) ==
    /\ Len(frames) = Cardinality(YearsOf(baseData))
    /\ { frames[k].name : k \in DOMAIN frames } =
         { ToString(y) : y \in YearsOf(baseData) }
    /\ \A i \in DOMAIN baseData :
         LET d == deriveRow(variant, baseData[i], s)
         IN  \E k \in DOMAIN frames :
               /\ frames[k].name = ToString(d.year)
               /\ \E p \in PointIds(frames[k]) : PointOfRow(frames[k], p, d)
    /\ \A k \in DOMAIN frames :
         \A p \in PointIds(frames[k]) :
           \E i \in DOMAIN baseData :
             /\ frames[k].name = ToString(baseData[i].year)
             /\ PointOfRow(frames[k], p, deriveRow(variant, baseData[i], s))

(* C11: in the animated variants, when a slider input handler has completed, *)
(* the frames it handed to the chart are one frame for every year of the     *)
(* dataset, and every point of every one of them is computed from the state  *)
(* as it is after the change.                                                *)
C11_SliderUpdatesAllFrames ==
    (lastEvent.kind = "slider" /\ variant \in Animated) =>
      FramesFromState(chartFrames, state)

\* a slider has changed the tariff and the chart holds the frames of
\* several years
C11_Witness ==
    /\ lastEvent.kind = "slider"
    /\ lastEvent.changed
    /\ lastEvent.key = "tariff"
    /\ variant \in Animated
    /\ Len(chartFrames) >= 2
    /\ state # initialState(variant)

\* the year range each generator iterates over
YearsOfVariant ==
    CASE variant \in {"script", "part000"} -> Range(years_script)
      [] variant = "readmeA" -> Range(years_readmeA)
      [] variant = "readmeB" -> Range(years_readme)

(* C12: the generated Observation table holds exactly one row for each       *)
(* (region, year) pair of the region list and the year range, and no other   *)
(* row.                                                                      *)
C12_OneObservationPerPair ==
    /\ \A r \in Range(regions), y \in YearsOfVariant :
         Cardinality({ i \in DOMAIN baseData :
             baseData[i].region = r /\ baseData[i].year = y }) = 1
    /\ \A i \in DOMAIN baseData :
         baseData[i].region \in Range(regions) /\ baseData[i].year \in YearsOfVariant
    /\ Len(baseData) = Len(regions) * Cardinality(YearsOfVariant)

\* a generated table of several years and all six regions is in use
C12_Witness ==
    /\ phase = "ready"
    /\ Cardinality(YearsOf(baseData)) >= 2
    /\ Cardinality({ baseData[i].region : i \in DOMAIN baseData }) = Len(regions)
    /\ \E i, j \in DOMAIN baseData :
         /\ baseData[i].region = baseData[j].region
         /\ baseData[i].year < baseData[j].year
         /\ Cost(baseData[i]) # Cost(baseData[j])

\* the generated table with the noise terms at zero (every Math.random()
\* draw at 0.5)
NoiseFreeData == genData(variant, 1)

(* C13: in every variant's generator, noise aside, the US cost and the US    *)
(* co2 decrease from each year index to the next, and decrease by strictly   *)
(* more than the cost and the co2 of every overseas region change.           *)
C13_DomesticImprovesFaster ==
    LET T == NoiseFreeData
        Y == YearsOf(T)
        row(r, y) == CHOOSE d \in Range(T) : d.region = r /\ d.year = y
        dCost(r, y) == Cost(row(r, y + 1)) - Cost(row(r, y))
        dCo2(r, y) == Co2(row(r, y + 1)) - Co2(row(r, y))
    IN  \A y \in Y :
          (y + 1 \in Y) =>
            /\ dCost("US", y) < 0
            /\ dCo2("US", y) < 0
            /\ \A o \in Range(overseasRegions) :
                 /\ dCost("US", y) < dCost(o, y)
                 /\ dCo2("US", y) < dCo2(o, y)

\* the four scenario fields of the current state, under the field names of
\* the README Gapminder version and of the README single-year version
AsGapminderState(t) ==
    [ tariff |-> t, shipping |-> Shipping(state), incentive |-> Incentive(state),
      carbonPrice |-> CarbonPrice(state), highlightedRegion |-> "null" ]
AsSingleYearState(t, yr) ==
    [ year |-> yr, tariffPercent |-> t, shippingCost |-> Shipping(state),
      iraIncentive |-> Incentive(state), carbonPrice |-> CarbonPrice(state) ]

(* C14: for every Observation of the README tables, under the current        *)
(* ScenarioState, the additive transformer (README computeScenario) and the  *)
(* multiplicative transformer (README computeScenarioData) give the same     *)
(* deliveredCost, the same number as the code holds it, for domestic and for *)
(* overseas rows.                                                            *)
C14_AdditiveEqualsMultiplicative ==
    (phase = "ready" /\ variant \in {"readmeA", "readmeB"}) =>
      \A i \in DOMAIN baseData :
        jsValue[doubles_readmeA(baseData[i], AsGapminderState(Tariff(state)),
                                "deliveredCost")
                  \o doubles_readmeB(baseData[i],
                                     AsSingleYearState(Tariff(state), baseData[i].year),
                                     "deliveredCost")
                  \o Ins("=", 0, 1)]

(* C15: in the animated variants, whenever an input event has just been      *)
(* handled, and whenever no deferred callback is pending, the frames         *)
(* registered with the chart are the ones computed from the current          *)
(* ScenarioState: the frames initChart hands to the deferred callback never  *)
(* replace frames computed from a newer state.                               *)
C15_RegisteredFramesAreCurrent ==
    ( /\ phase = "ready"
      /\ variant \in Animated
      /\ (pending = << >> \/ lastEvent.kind \in {"slider", "preset", "click"}) ) =>
      FramesFromState(chartFrames, state)

\* the state update of the latest handler, as a function of the state the
\* handler found
LastUpdate(s) ==
    CASE lastEvent.kind = "slider" -> setSlider(s, lastEvent.key, lastEvent.value)
      [] lastEvent.kind = "preset" -> applyPreset(variant, s, lastEvent.key)
      [] OTHER -> s

\* the fields the latest handler assigned: those that do not keep the value
\* the handler found
Written == { k \in DOMAIN state : LastUpdate(Blank)[k] # Blank[k] }

(* C16 as stated: every slider handler and every preset handler assigns all  *)
(* four fields of the ScenarioState record.                                  *)
C16_HandlersRewriteWholeRecord ==
    lastEvent.kind \in {"slider", "preset"} => ScenarioFields \subseteq Written

(* C16 as amended: a preset handler with a recognized name assigns all four  *)
(* scenario fields; a slider handler assigns the one field bound to its      *)
(* slider and no other; in both cases the record holds the assigned values   *)
(* and the handler's one recompute has read the record after all of its      *)
(* assignments.                                                              *)
C16_HandlersAssignBoundFields ==
    /\ lastEvent.kind = "slider" =>
         /\ Written = { lastEvent.key }
         /\ state[lastEvent.key] = lastEvent.value
         /\ scenario = computeScenario(variant, baseData, state)
    /\ (lastEvent.kind = "preset" /\ lastEvent.key \in RecognizedPresets) =>
         /\ ScenarioFields \subseteq Written
         /\ \A k \in Written : state[k] = LastUpdate(Blank)[k]
         /\ scenario = computeScenario(variant, baseData, state)

\* a slider handler has run after a preset handler had set all four fields
\* to values that are not the initial ones
C16_Witness ==
    /\ lastEvent.kind = "slider"
    /\ lastEvent.changed
    /\ \E k \in ScenarioFields \ { lastEvent.key } :
         state[k] # initialState(variant)[k] /\ state[k] \notin sliderValues(k)

(* C17: no step of the program changes the Observation table: every row,     *)
(* the number of rows and their order stay as generated.                     *)
C17_BaseDataImmutable == [][baseData' = baseData]_vars

\* an input handler has recomputed, and the table in use is still a
\* generated one while the derived costs differ from its costs
C17_Witness ==
    /\ lastEvent.kind \in {"slider", "preset", "click"}
    /\ lastEvent.changed
    /\ \E seed \in 1..NumSeeds : baseData = genData(variant, seed)
    /\ \E i \in DOMAIN scenario : scenario[i].deliveredCost # Cost(scenario[i])

(* C18: a slider input handler sets the field bound to its slider to the     *)
(* slider's numeric value, leaves every other field of the ScenarioState as  *)
(* it was, and redraws exactly once, from the state it has produced.         *)
C18_SliderChangesOnlyItsField ==
    [][ lastEvent'.kind = "slider" =>
          /\ lastEvent'.key \in DOMAIN state
          /\ state'[lastEvent'.key] = lastEvent'.value
          /\ \A k \in DOMAIN state \ { lastEvent'.key } : state'[k] = state[k]
          /\ redraws' = 1
          /\ scenario' = computeScenario(variant, baseData, state') ]_vars

\* a slider has changed its field in a state whose other fields a preset
\* had set
C18_Witness ==
    /\ lastEvent.kind = "slider"
    /\ lastEvent.changed
    /\ redraws = 1
    /\ state[lastEvent.key] = lastEvent.value
    /\ \E k \in ScenarioFields \ { lastEvent.key } : state[k] # initialState(variant)[k]
    /\ scenario = computeScenario(variant, baseData, state)

(* C19: a preset click whose name the handler does not recognize leaves     *)
(* every ScenarioState field as it was, sets every slider to the unchanged   *)
(* state's value, and redraws once, from the unchanged state and without     *)
(* error.                                                                    *)
C19_UnknownPresetKeepsState ==
    [][ (lastEvent'.kind = "preset" /\ lastEvent'.key \notin RecognizedPresets) =>
          /\ state' = state
          /\ \A k \in sliderKeys(variant) : ui'.slider[k] = state[k]
          /\ redraws' = 1
          /\ ~threw'
          /\ scenario' = computeScenario(variant, baseData, state) ]_vars

\* a preset button with an unrecognized name has been clicked in a state
\* that is not the initial one
C19_Witness ==
    /\ lastEvent.kind = "preset"
    /\ lastEvent.key \notin RecognizedPresets
    /\ ~lastEvent.changed
    /\ state # initialState(variant)
    /\ redraws = 1
    /\ ~threw

\* the regions that occur in the Observation table
RegionsOf(all) == { all[i].region : i \in DOMAIN all }

\* every point of every registered frame has the opacity the highlight
\* asks for (opacity in hundredths)
OpacityFollowsHighlight ==
    \A k \in DOMAIN chartFrames :
      \A p \in PointIds(chartFrames[k]) :
        chartFrames[k].data[p[1]].marker.opacity[p[2]] =
          IF state.highlightedRegion = "null" THEN 100
          ELSE IF PointRegion(chartFrames[k], p) = state.highlightedRegion THEN 100
          ELSE 15

(* C20: in the click-to-highlight variant, highlightedRegion is always null  *)
(* or a region of the dataset, and every point of every frame built has      *)
(* opacity 1.0 if nothing is highlighted or its region is the highlighted    *)
(* one, and 0.15 otherwise; a click on the highlighted region sets           *)
(* highlightedRegion to null, a click on another region sets it to that      *)
(* region, and a click changes none of tariff, shipping, incentive and       *)
(* carbonPrice.                                                              *)
C20_ClickToHighlight ==
    /\ [](variant = "readmeA" =>
            /\ state.highlightedRegion \in {"null"} \cup RegionsOf(baseData)
            /\ OpacityFollowsHighlight)
    /\ [][ lastEvent'.kind = "click" =>
             /\ lastEvent'.key \in RegionsOf(baseData)
             /\ state'.highlightedRegion =
                  IF state.highlightedRegion = lastEvent'.key THEN "null"
                  ELSE lastEvent'.key
             /\ \A k \in ScenarioFields : state'[k] = state[k] ]_vars

\* a click has highlighted a region after a slider had changed the tariff,
\* and the registered frames show that region at 1.0 and another at 0.15
C20_Witness ==
    /\ variant = "readmeA"
    /\ lastEvent.kind = "click"
    /\ state.highlightedRegion = lastEvent.key
    /\ state.tariff # 10
    /\ \E k \in DOMAIN chartFrames :
         \E p, q \in PointIds(chartFrames[k]) :
           /\ PointRegion(chartFrames[k], p) = state.highlightedRegion
           /\ chartFrames[k].data[p[1]].marker.opacity[p[2]] = 100
           /\ chartFrames[k].data[q[1]].marker.opacity[q[2]] = 15

-----------------------------------------------------------------------------
\* the variants that classify regions with the two lists
ListClassified == { "readmeA", "readmeB" }

\* the ScenarioState field names of the current variant
TariffField == IF variant = "readmeB" THEN "tariffPercent" ELSE "tariff"
ShippingField == IF variant = "readmeB" THEN "shippingCost" ELSE "shipping"
IncentiveField == IF variant = "readmeB" THEN "iraIncentive" ELSE "incentive"

\* the transformer gives Observation d an adjustment for scenario field f:
\* d's delivered cost depends on the value of f
Adjusts(d, f) ==
    deriveRow(variant, d, [state EXCEPT ![f] = 0]).deliveredCost #
      deriveRow(variant, d, [state EXCEPT ![f] = 50]).deliveredCost

(* C21: in the variants that classify regions with the domesticRegions and   *)
(* overseasRegions lists, every region that occurs in the Observation table  *)
(* is in exactly one of the two lists, no row is treated as both domestic    *)
(* (incentive) and overseas (shipping), and no row gets a tariff adjustment  *)
(* without a shipping adjustment.                                            *)
C21_ListsPartitionRegions ==
    variant \in ListClassified =>
      /\ \A r \in RegionsOf(baseData) :
           includes(domesticRegions, r) # includes(overseasRegions, r)
      /\ \A i \in DOMAIN baseData :
           /\ ~(Adjusts(baseData[i], IncentiveField)
                  /\ Adjusts(baseData[i], ShippingField))
           /\ Adjusts(baseData[i], TariffField)
                => Adjusts(baseData[i], ShippingField)

\* after a slider event with tariff and shipping both non-zero, the derived
\* table holds a row of a listed overseas region that carries both
\* adjustments and a row of the listed domestic region that carries neither
C21_Witness ==
    /\ variant \in ListClassified
    /\ lastEvent.kind = "slider"
    /\ Tariff(state) > 0
    /\ Shipping(state) > 0
    /\ \E i, j \in DOMAIN scenario :
         /\ includes(overseasRegions, scenario[i].region)
         /\ ~includes(domesticRegions, scenario[i].region)
         /\ scenario[i].deliveredCost =
              scenario[i].baseCost
                + (Tariff(state) * scenario[i].baseCost) \div 100
                + Dollars(Shipping(state))
         /\ includes(domesticRegions, scenario[j].region)
         /\ ~includes(overseasRegions, scenario[j].region)
         /\ scenario[j].deliveredCost =
              scenario[j].baseCost - Dollars(Incentive(state))

=============================================================================
